---- MODULE Spec2Model ----
(***************************************************************************)
(* Session-aware risk and profit-taking engine of the trading bot.         *)
(*                                                                         *)
(*   SessionManager / MarketSession   src/src/core/session_manager.py      *)
(*   RiskManager / Position           src/src/risk_management/             *)
(*                                    risk_manager.py                      *)
(*   ProfitMonitor (rule engine)      src/src/core/profit_monitor.py       *)
(*                                                                         *)
(* Units.  Time is counted in minutes since 00:00 UTC of day 0; a          *)
(* time-of-day is a number of minutes in 0..1439.  A volume is counted in  *)
(* eighths of the minimum lot (0.00125 lot), so that the halves the rule   *)
(* fractions produce stay whole numbers.  A price is counted in pips.      *)
(***************************************************************************)
EXTENDS Integers, Sequences, FiniteSets, Bags, TLC

VARIABLES
    now,                  \* wall clock, datetime.now(), in minutes
    sessions,             \* SessionManager.sessions: kind -> MarketSession
    sessQuery,            \* last is_session_active call: arguments and result
    jobs,                 \* the job list of the schedule module
    session_callbacks,    \* SessionManager.session_callbacks: kind -> list
    sessCall,             \* history: the last other SessionManager call
    threads,              \* the scheduler thread and the main loop: position, jobs to run
    running,              \* TradingBot.running (stop_event is set with it)
    sm_running,           \* SessionManager.running (stop_event is set with it)
    connected,            \* MT5Broker.connected
    stopPc,               \* the position of the caller of TradingBot.stop
    callLog,              \* history: a bag of the callback invocations
    broker,               \* ProfitMonitor.broker: "none" until set_broker
    profit_taking_rules,  \* ProfitMonitor.profit_taking_rules (a list)
    active_positions,     \* ProfitMonitor.active_positions (an ordered dict)
    ruleFirings,          \* history: per rule, the tick times it closed at
    lastTick,             \* history: the check_profit_taking call that just returned
    ruleCall,             \* history: the rule-set call that just returned
    config,               \* RiskManager.config (RiskConfig)
    positions,            \* RiskManager.positions: ticket -> Position
    daily_pnl,            \* RiskManager.daily_pnl
    daily_trades,         \* RiskManager.daily_trades
    max_daily_loss_reached,   \* RiskManager.max_daily_loss_reached
    last_reset_date,      \* RiskManager.last_reset_date (a day number)
    total_trades,         \* RiskManager.total_trades
    winning_trades,       \* RiskManager.winning_trades
    losing_trades,        \* RiskManager.losing_trades
    current_drawdown,     \* RiskManager.current_drawdown, in percent
    peak_balance,         \* RiskManager.peak_balance
    max_drawdown,         \* RiskManager.max_drawdown, in percent
    riskCall              \* history: the RiskManager call that just returned

riskVars == <<config, positions, daily_pnl, daily_trades,
              max_daily_loss_reached, last_reset_date, total_trades,
              winning_trades, losing_trades, current_drawdown, peak_balance,
              max_drawdown, riskCall>>

vars == <<now, sessions, sessQuery, jobs, session_callbacks, sessCall, threads,
          running, sm_running, connected, stopPc, callLog, broker, profit_taking_rules,
          active_positions, ruleFirings, lastTick, ruleCall, riskVars>>

sessionVars == <<sessions, sessQuery, jobs, session_callbacks, sessCall>>

botVars == <<threads, running, sm_running, connected, stopPc, callLog>>
engineVars == <<broker, profit_taking_rules, active_positions, ruleFirings,
                lastTick, ruleCall>>

----------------------------------------------------------------------------
(* Bounds of the model *)

\* the clock stops advancing here
MaxNow == 965

\* the clock of the rule engine starts at 15:45 UTC (london and new_york open)
StartNow == 945

ClockSteps == {10}

Tickets == {1, 2}

Symbols == {"EURUSD", "GBPUSD"}

\* the instrument of each trade: ticket 1 is a EURUSD trade, ticket 2 a
\* GBPUSD trade
SymbolOfTicket == [t \in Tickets |-> IF t = 1 THEN "EURUSD" ELSE "GBPUSD"]

\* profit in pips reported by the caller of update_position_profit
PipInputs == {0, 10, 20}

\* times of day used for session windows and queries:
\* 02:00, 06:00, 10:00, 22:00, 23:30
TimeGrid == {120, 360, 600, 1320, 1410}

\* UTC offsets of the session timezones that are tried (UTC, UTC+2)
TzOffsets == {0, 120}

\* the session kinds registered in the session specification
QueryKinds == {"london"}

\* the longest rule list
MaxRules == 7

\* the schedule module holds at most this many jobs
MaxJobs == 2

\* the longest list of callbacks of a session
MaxCallbacks == 2

\* the RiskManager stops admitting positions after this many
MaxTrades == 2

\* the last day the clock reaches
MaxDay == 1

\* the side of each trade: ticket 1 is a BUY, ticket 2 a SELL
SideOfTicket == [t \in Tickets |-> IF t = 1 THEN "BUY" ELSE "SELL"]

\* prices quoted by the broker, and the price positions are opened at
PriceInputs == {1, 3}

OpenPrice == 2

\* ask prices and volumes given to can_open_position
AskInputs == {1, 2}

VolumeOrders == {1, 2}

\* the volume of the positions opened
OrderVolume == 2

\* the account balance the broker reports
Balance == 100

\* the balance the broker reports after the account has lost money
LowBalance == 80

----------------------------------------------------------------------------
(* Program constants *)

\* "if self.current_drawdown >= 0.1:  # 10% drawdown", in percent
HardDrawdownPct == 10

\* "if self.current_drawdown >= 0.05:  # 5% drawdown", in percent
HighDrawdownPct == 5

DayMinutes == 1440

\* "if position.volume <= 0.01:  # Minimum lot size", in volume units
MinLot == 8

\* denominator of profit_percentage: 5 is 0.5, 10 is 1.0
PctDen == 10

\* Optional[...] = None
None == -1

SessionType == {"asian", "london", "new_york", "overlap"}

----------------------------------------------------------------------------
(* MarketSession *)

\* current_time.astimezone(self.timezone).time()
LocalTimeOfDay(t, tz) == (t + tz) % DayMinutes

\* the wrapping window taken as an intersection
IsSessionActiveMut(s, t) ==
    LET current_time_local == LocalTimeOfDay(t, s.tz)
    IN  IF s.start_time > s.end_time
        THEN current_time_local >= s.start_time /\ current_time_local <= s.end_time
        ELSE s.start_time <= current_time_local /\ current_time_local <= s.end_time

\* MarketSession.is_session_active(current_time = t)
IsSessionActive(s, t) ==
    LET current_time_local == LocalTimeOfDay(t, s.tz)
    IN  IF s.start_time > s.end_time
        THEN current_time_local >= s.start_time \/ current_time_local <= s.end_time
        ELSE s.start_time <= current_time_local /\ current_time_local <= s.end_time

\* MarketSession.__init__: "self.is_active = False"
MarketSession(start, end, tz, enabled) ==
    [start_time |-> start, end_time |-> end, tz |-> tz, enabled |-> enabled,
     is_active |-> FALSE]

\* TradingBotConfig.from_env: asian 00:00-08:00, london 08:00-16:00,
\* new_york 13:00-21:00, all UTC and enabled
DefaultSessions ==
    [k \in {"asian", "london", "new_york"} |->
        CASE k = "asian"    -> MarketSession(0, 480, 0, TRUE)
          [] k = "london"   -> MarketSession(480, 960, 0, TRUE)
          [] k = "new_york" -> MarketSession(780, 1260, 0, TRUE)]

\* the sessions whose last notification was a start
GetActiveSessionsMut(t) ==
    {k \in DOMAIN sessions : sessions[k].is_active}

\* SessionManager.get_active_sessions at time t
GetActiveSessions(t) ==
    {k \in DOMAIN sessions : IsSessionActive(sessions[k], t)}

NoQuery == [kind |-> "none"]

\* no check_profit_taking call has just returned
NoTick == [time |-> None]

\* no RiskManager call has just returned
NoCall == [op |-> "none"]

\* the threads that call schedule.run_pending: SessionManager._run_scheduler
\* and TradingBot._main_loop
Threads == {"scheduler", "main"}

\* no SessionManager call other than a query has just returned
NoSessCall == [op |-> "none"]

\* MarketSession._parse_time on the "HH:MM" string of minute m of the day:
\* time(hours, minutes) raises ValueError unless 0 <= hours <= 23
ParseTimeRaises(m) == ~ (0 <= m \div 60 /\ m \div 60 <= 23)

\* every configuration taken for good
SessionInitRaisesMut(start, end, tz) == FALSE

\* MarketSession.__init__ raises: pytz.timezone on a name it does not know
\* (held here as None), or _parse_time on the start or the end time
SessionInitRaises(start, end, tz) ==
    \/ tz = None
    \/ ParseTimeRaises(start)
    \/ ParseTimeRaises(end)

\* the first run of "schedule.every().day.at(HH:MM)": today if that time of
\* day is still to come, tomorrow otherwise
FirstRun(at) ==
    IF at > now % DayMinutes THEN (now \div DayMinutes) * DayMinutes + at
    ELSE (now \div DayMinutes + 1) * DayMinutes + at

\* SessionManager._schedule_session: the two jobs it appends
ScheduleSession(kind, start, end) ==
    << [kind |-> kind, edge |-> "start", at |-> start, next_run |-> FirstRun(start)],
       [kind |-> kind, edge |-> "end", at |-> end, next_run |-> FirstRun(end)] >>

\* SessionManager.add_session: "session = MarketSession(config)" may raise
\* before anything is stored; then sessions[config.session_type] = session
\* and, for an enabled session, _schedule_session
AddSession(kind, start, end, tz, enabled) ==
    /\ enabled => Len(jobs) + 2 <= MaxJobs
    /\ IF SessionInitRaises(start, end, tz)
       THEN UNCHANGED <<sessions, jobs>>
       ELSE /\ sessions' = [k \in DOMAIN sessions \cup {kind} |->
                              IF k = kind THEN MarketSession(start, end, tz, enabled)
                              ELSE sessions[k]]
            /\ jobs' = IF enabled THEN jobs \o ScheduleSession(kind, start, end)
                       ELSE jobs
    /\ sessCall' = [op |-> "add_session", kind |-> kind, start |-> start,
                    end |-> end, tz |-> tz,
                    raised |-> SessionInitRaises(start, end, tz)]
    /\ sessQuery' = NoQuery      \* the history starts again at a registration
    /\ UNCHANGED <<now, session_callbacks, engineVars, riskVars,
                   botVars>>

\* SessionManager.get_active_sessions with datetime.now() = t
GetActiveSessionsCall(t) ==
    /\ sessCall' = [op |-> "get_active_sessions", at |-> t,
                    result |-> GetActiveSessions(t)]
    /\ sessQuery' = NoQuery
    /\ UNCHANGED <<now, sessions, jobs, session_callbacks, engineVars, riskVars,
                   botVars>>

\* SessionManager.is_session_active(kind) with
\* MarketSession.is_session_active(current_time = t)
IsSessionActiveCall(kind, t) ==
    /\ sessQuery' =
         IF kind \notin DOMAIN sessions
         THEN [kind |-> kind, at |-> t, result |-> FALSE]
         ELSE [kind |-> kind, at |-> t,
               result |-> IsSessionActive(sessions[kind], t)]
    /\ sessCall' = NoSessCall
    /\ UNCHANGED <<now, sessions, jobs, session_callbacks, engineVars, riskVars,
                   botVars>>

\* SessionManager.add_session_callback
AddSessionCallback(kind, callback) ==
    /\ kind \in DOMAIN session_callbacks
          => Len(session_callbacks[kind]) < MaxCallbacks
    /\ session_callbacks' =
          [k \in DOMAIN session_callbacks \cup {kind} |->
              IF k = kind
              THEN (IF kind \in DOMAIN session_callbacks
                    THEN Append(session_callbacks[kind], callback)
                    ELSE <<callback>>)
              ELSE session_callbacks[k]]
    /\ sessCall' = [op |-> "add_session_callback"]
    /\ sessQuery' = NoQuery
    /\ UNCHANGED <<now, sessions, jobs, engineVars, riskVars, botVars>>

\* "sorted(runnable_jobs)": the jobs of S by next_run, the earlier in the
\* list first among equals
RECURSIVE SortJobs(_)
SortJobs(S) ==
    IF S = {} THEN << >>
    ELSE LET j == CHOOSE x \in S :
                    \A y \in S : \/ jobs[x].next_run < jobs[y].next_run
                                 \/ jobs[x].next_run = jobs[y].next_run /\ x <= y
         IN  <<j>> \o SortJobs(S \ {j})

\* "runnable_jobs = (job for job in self.jobs if job.should_run)", sorted:
\* should_run is "datetime.now() >= self.next_run"
DueJobs == SortJobs({j \in 1..Len(jobs) : now >= jobs[j].next_run})

\* the callbacks after one that raised left out
InvokedMut(callbacks, raising) ==
    LET stop == IF \E i \in 1..Len(callbacks) : i \in raising
                THEN CHOOSE i \in 1..Len(callbacks) :
                        i \in raising /\ \A k \in 1..(i - 1) : k \notin raising
                ELSE Len(callbacks)
    IN  [i \in 1..stop |-> [cb |-> callbacks[i], raised |-> i \in raising]]

\* "for callback in self.session_callbacks[session_type]: try:
\* callback(session_type, ...) except Exception": the callbacks called, in
\* order, raising being the places of those that raise
Invoked(callbacks, raising) ==
    [i \in 1..Len(callbacks) |-> [cb |-> callbacks[i], raised |-> i \in raising]]

\* the invocations of one dispatch added to the history
RECURSIVE Logged(_, _, _, _)
Logged(log, invoked, kind, edge) ==
    IF invoked = << >> THEN log
    ELSE Logged(log (+) SetToBag({[kind |-> kind, edge |-> edge,
                                   cb |-> Head(invoked).cb,
                                   day |-> now \div DayMinutes]}),
                Tail(invoked), kind, edge)

\* the flag a loop tests: "while self.running and not
\* self.stop_event.is_set()"
LoopFlag(th) == IF th = "main" THEN running ELSE sm_running

\* the loop of th tests its flag
LoopCheck(th) ==
    /\ threads[th].pc = "top"
    /\ threads' = [threads EXCEPT ![th].pc =
                      IF LoopFlag(th) THEN "run_pending" ELSE "exited"]
    /\ sessCall' = NoSessCall
    /\ UNCHANGED <<now, sessions, sessQuery, jobs, session_callbacks, running,
                   sm_running, connected, stopPc, callLog, engineVars, riskVars>>

\* schedule.run_pending called by th: the jobs that are due are collected
RunPending(th) ==
    /\ threads[th].pc = "run_pending"
    /\ threads' = [threads EXCEPT ![th] = [pc |-> "jobs", todo |-> DueJobs]]
    /\ sessCall' = NoSessCall
    /\ UNCHANGED <<now, sessions, sessQuery, jobs, session_callbacks, running,
                   sm_running, connected, stopPc, callLog, engineVars, riskVars>>

\* schedule runs the next collected job on th: job_func, which is
\* _on_session_start or _on_session_end, then the job's next run is set
RunJob(th, raising) ==
    /\ threads[th].pc = "jobs"
    /\ threads[th].todo # << >>
    /\ LET j == Head(threads[th].todo)
           kind == jobs[j].kind
           edge == jobs[j].edge
           invoked == IF kind \in DOMAIN session_callbacks
                      THEN Invoked(session_callbacks[kind], raising)
                      ELSE << >>
       IN  /\ sessions' = IF kind \in DOMAIN sessions
                          THEN [sessions EXCEPT ![kind].is_active = (edge = "start")]
                          ELSE sessions
           /\ callLog' = Logged(callLog, invoked, kind, edge)
           /\ jobs' = [jobs EXCEPT ![j].next_run = FirstRun(jobs[j].at)]
           /\ sessCall' = [op |-> "dispatch", kind |-> kind, edge |-> edge,
                           by |-> th, invoked |-> invoked]
    /\ threads' = [threads EXCEPT ![th].todo = Tail(threads[th].todo)]
    /\ UNCHANGED <<now, sessQuery, session_callbacks, running, sm_running,
                   connected, stopPc, engineVars, riskVars>>

\* run_pending returns on th: the scheduler thread sleeps, the main loop
\* goes on to _update_risk_management
JobsDone(th) ==
    /\ threads[th].pc = "jobs"
    /\ threads[th].todo = << >>
    /\ threads' = [threads EXCEPT ![th].pc =
                      IF th = "main" THEN "risk" ELSE "sleep"]
    /\ sessCall' = NoSessCall
    /\ UNCHANGED <<now, sessions, sessQuery, jobs, session_callbacks, running,
                   sm_running, connected, stopPc, callLog, engineVars, riskVars>>

\* the main loop leaves _update_risk_management and comes to the profit
\* check, then to its sleep
MainLoopStep ==
    /\ threads["main"].pc \in {"risk", "profit_check"}
    /\ threads' = [threads EXCEPT !["main"].pc =
                      IF threads["main"].pc = "risk" THEN "profit_check"
                      ELSE "sleep"]
    /\ sessCall' = NoSessCall
    /\ UNCHANGED <<now, sessions, sessQuery, jobs, session_callbacks, running,
                   sm_running, connected, stopPc, callLog, engineVars, riskVars>>

\* "time.sleep(1)" is over on th
Sleep(th) ==
    /\ threads[th].pc = "sleep"
    /\ threads' = [threads EXCEPT ![th].pc = "top"]
    /\ sessCall' = NoSessCall
    /\ UNCHANGED <<now, sessions, sessQuery, jobs, session_callbacks, running,
                   sm_running, connected, stopPc, callLog, engineVars, riskVars>>

\* TradingBot.stop, one statement after the other: the flags of the bot; the
\* flags of the session manager; the join of the scheduler thread, which
\* returns when that thread has left its loop or, after 5 seconds, while it
\* is still inside run_pending; the disconnect of the broker.  The main
\* thread is not joined.
Stop ==
    /\ CASE stopPc = "none" ->
                /\ running
                /\ running' = FALSE
                /\ stopPc' = "stop_sessions"
                /\ UNCHANGED <<sm_running, connected>>
         [] stopPc = "stop_sessions" ->
                /\ sm_running' = FALSE
                /\ stopPc' = "join"
                /\ UNCHANGED <<running, connected>>
         [] stopPc = "join" ->
                /\ threads["scheduler"].pc \in {"exited", "jobs"}
                /\ stopPc' = "disconnect"
                /\ UNCHANGED <<running, sm_running, connected>>
         [] stopPc = "disconnect" ->
                /\ connected' = FALSE
                /\ stopPc' = "returned"
                /\ UNCHANGED <<running, sm_running>>
         [] OTHER -> FALSE
    /\ sessCall' = NoSessCall
    /\ UNCHANGED <<now, sessions, sessQuery, jobs, session_callbacks, threads,
                   callLog, engineVars, riskVars>>

----------------------------------------------------------------------------
(* ProfitMonitor: time-based profit taking *)

\* ProfitTakingRule(...); last_execution defaults to None
ProfitTakingRule(name, interval, minPips, pct, maxTrades, sessionFilter, symbolFilter) ==
    [name |-> name, enabled |-> TRUE, time_interval_minutes |-> interval,
     min_profit_pips |-> minPips, profit_percentage |-> pct,
     max_trades_per_interval |-> maxTrades, session_filter |-> sessionFilter,
     symbol_filter |-> symbolFilter, last_execution |-> None]

\* the rule lists the engine is configured with
RuleQuick == ProfitTakingRule("quick", 15, 10, 5, 1, "none", "none")
RuleLondon == ProfitTakingRule("london", 10, 20, 10, 2, "london", "none")
RuleEurusd == ProfitTakingRule("eurusd", 10, 10, 5, 2, "none", "EURUSD")

RuleConfigs == { <<RuleQuick, RuleLondon>>, <<RuleEurusd>> }

\* ActivePosition as TradingBot._record_trade creates it.  The fields no
\* decision reads (order_type, open_price, open_time, current_profit,
\* strategy) are left out.
ActivePosition(ticket, symbol, volume, session) ==
    [ticket |-> ticket, symbol |-> symbol, volume |-> volume,
     current_profit_pips |-> 0, session |-> session]

\* the keys of the ordered dict, in insertion order
TicketsOf(tracked) == [i \in 1..Len(tracked) |-> tracked[i].ticket]

TicketSet(tracked) == {tracked[i].ticket : i \in 1..Len(tracked)}

IndexOf(tracked, ticket) ==
    CHOOSE i \in 1..Len(tracked) : tracked[i].ticket = ticket

\* del self.active_positions[ticket], when the ticket is tracked
RemoveTicket(tracked, ticket) ==
    IF ticket \in TicketSet(tracked)
    THEN SelectSeq(tracked, LAMBDA p : p.ticket # ticket)
    ELSE tracked

\* self.active_positions[position.ticket] = position: a new key goes to the
\* end, an existing key keeps its place
PutPosition(tracked, pos) ==
    IF pos.ticket \in TicketSet(tracked)
    THEN [tracked EXCEPT ![IndexOf(tracked, pos.ticket)] = pos]
    ELSE Append(tracked, pos)

\* the interval check left out
RuleDueMut(rule, current_time) == TRUE

\* "if rule.last_execution: ... total_seconds() < time_interval_minutes * 60:
\* continue" -- TRUE when the rule is not skipped
RuleDue(rule, current_time) ==
    \/ rule.last_execution = None
    \/ ~ ((current_time - rule.last_execution) * 60 < rule.time_interval_minutes * 60)

\* the symbol filter left out
PositionMatchesMut(rule, position) ==
    /\ ~ (rule.session_filter # "none" /\ position.session # rule.session_filter)
    /\ position.current_profit_pips > 0

\* the filter of _get_matching_positions on one position
PositionMatches(rule, position) ==
    /\ ~ (rule.session_filter # "none" /\ position.session # rule.session_filter)
    /\ ~ (rule.symbol_filter # "none" /\ position.symbol # rule.symbol_filter)
    /\ position.current_profit_pips > 0

\* _get_matching_positions: in the order of self.active_positions.values()
GetMatchingPositions(rule, tracked) ==
    SelectSeq(tracked, LAMBDA p : PositionMatches(rule, p))

\* an unstable sort: equal keys come out in reverse order
InsertSortedMut(sorted, p) ==
    LET k == Cardinality({i \in 1..Len(sorted) :
                 sorted[i].current_profit_pips > p.current_profit_pips})
    IN  SubSeq(sorted, 1, k) \o <<p>> \o SubSeq(sorted, k + 1, Len(sorted))

\* where list.sort(key = current_profit_pips, reverse = True) puts p among the
\* already sorted elements: the sort is stable, so after every element whose
\* key is not smaller
InsertSorted(sorted, p) ==
    LET k == Cardinality({i \in 1..Len(sorted) :
                 sorted[i].current_profit_pips >= p.current_profit_pips})
    IN  SubSeq(sorted, 1, k) \o <<p>> \o SubSeq(sorted, k + 1, Len(sorted))

RECURSIVE SortByProfit(_)
SortByProfit(list) ==
    IF list = << >> THEN << >>
    ELSE InsertSorted(SortByProfit(SubSeq(list, 1, Len(list) - 1)), list[Len(list)])

\* close_volume = position.volume * rule.profit_percentage
CloseVolume(position, rule) == (position.volume * rule.profit_percentage) \div PctDen

\* "if position.volume <= 0.01:  # Minimum lot size" on the reduced volume
FullyClosed(volume) == volume <= MinLot

\* _execute_profit_taking on the tracked position of that ticket.  outcome is
\* what the broker does: "noprice" (get_mid_price gives nothing), "rejected"
\* (close_order_partial fails or raises) or "ok".
ExecuteProfitTaking(tracked, ticket, rule, outcome) ==
    LET position == tracked[IndexOf(tracked, ticket)]
        close_volume == CloseVolume(position, rule)
        reduced == [position EXCEPT !.volume = position.volume - close_volume]
    IN  IF outcome # "ok"
        THEN [ok |-> FALSE, positions |-> tracked]
        ELSE [ok |-> TRUE,
              positions |-> IF FullyClosed(reduced.volume)
                            THEN RemoveTicket(tracked, ticket)
                            ELSE PutPosition(tracked, reduced)]

\* every attempt counted, also a failed one
CountCloseMut(ok) == 1

\* "if self._execute_profit_taking(position, rule): ... closed_count += 1"
CountClose(ok) == IF ok THEN 1 ELSE 0

\* the value of a one-element set (used to evaluate a result once)
Only(S) == CHOOSE x \in S : TRUE

\* the loop "for position in matching_positions" of one rule, from candidate k
\* on.  st carries active_positions, closed_count and the attempts made.
RECURSIVE WalkCandidates(_, _, _, _, _)
WalkCandidates(rule, cands, k, st, outcomeOf) ==
    IF k > Len(cands) \/ st.closed_count >= rule.max_trades_per_interval
    THEN st
    ELSE IF cands[k].current_profit_pips >= rule.min_profit_pips
    THEN WalkCandidates(rule, cands, k + 1,
             Only({[positions |-> r.positions,
                    closed_count |-> st.closed_count + CountClose(r.ok),
                    closed |-> IF r.ok THEN Append(st.closed, cands[k].ticket)
                               ELSE st.closed,
                    attempts |-> Append(st.attempts,
                        [ticket |-> cands[k].ticket,
                         outcome |-> outcomeOf[cands[k].ticket],
                         before |-> st.positions[IndexOf(st.positions, cands[k].ticket)].volume,
                         after |-> IF cands[k].ticket \in TicketSet(r.positions)
                                   THEN r.positions[IndexOf(r.positions, cands[k].ticket)].volume
                                   ELSE None])]
                   : r \in {ExecuteProfitTaking(st.positions, cands[k].ticket, rule,
                                                outcomeOf[cands[k].ticket])}}),
             outcomeOf)
    ELSE WalkCandidates(rule, cands, k + 1, st, outcomeOf)

\* "if closed_count > 0: rule.last_execution = current_time" done whenever
\* the rule has been walked
StampRuleMut(rule, closed_count, current_time) ==
    [rule EXCEPT !.last_execution = current_time]

\* "if closed_count > 0: rule.last_execution = current_time"
StampRule(rule, closed_count, current_time) ==
    IF closed_count > 0
    THEN [rule EXCEPT !.last_execution = current_time]
    ELSE rule

\* the body of the rules loop once the rule has candidates: walk the sorted
\* candidates, then stamp the rule
FireRule(rule, tracked, cands, current_time, outcomeOf) ==
    Only({[rule |-> StampRule(rule, st.closed_count, current_time),
           positions |-> st.positions, ran |-> TRUE,
           cands |-> [i \in 1..Len(cands) |->
                        [ticket |-> cands[i].ticket,
                         pips |-> cands[i].current_profit_pips]],
           attempts |-> st.attempts, closed |-> st.closed]
          : st \in {WalkCandidates(rule, cands, 1,
                        [positions |-> tracked, closed_count |-> 0,
                         closed |-> << >>, attempts |-> << >>], outcomeOf)}})

\* one iteration of "for rule in self.profit_taking_rules"
RunRule(rule, tracked, current_time, outcomeOf) ==
    LET idle == [rule |-> rule, positions |-> tracked, ran |-> FALSE,
                 cands |-> << >>, attempts |-> << >>, closed |-> << >>]
    IN  IF ~ rule.enabled THEN idle
        ELSE IF ~ RuleDue(rule, current_time) THEN idle
        ELSE Only({IF matching = << >> THEN idle
                   ELSE FireRule(rule, tracked, SortByProfit(matching),
                                 current_time, outcomeOf)
                   : matching \in {GetMatchingPositions(rule, tracked)}})

\* the rules loop of check_profit_taking from rule i on; acc carries the
\* rules, active_positions, closed_tickets and the per-rule record
RECURSIVE RunRules(_, _, _, _)
RunRules(i, acc, current_time, outcomes) ==
    IF i > Len(acc.rules) THEN acc
    ELSE RunRules(i + 1,
             Only({[rules |-> [acc.rules EXCEPT ![i] = r.rule],
                    positions |-> r.positions,
                    closed_tickets |-> acc.closed_tickets \o r.closed,
                    walks |-> Append(acc.walks,
                                 [ran |-> r.ran, cands |-> r.cands,
                                  attempts |-> r.attempts, closed |-> r.closed])]
                   : r \in {RunRule(acc.rules[i], acc.positions, current_time,
                                    outcomes[i])}}),
             current_time, outcomes)

BrokerOutcomes == {"ok", "noprice", "rejected"}

\* rule i can ask the broker about ticket t in a tick at the present time
MayAttempt(i, t) ==
    /\ t \in TicketSet(active_positions)
    /\ profit_taking_rules[i].enabled
    /\ RuleDue(profit_taking_rules[i], now)
    /\ PositionMatches(profit_taking_rules[i],
                       active_positions[IndexOf(active_positions, t)])

\* what the broker answers to rule i about each ticket; the answers that
\* no rule can ask for are fixed to keep the choice small
OutcomesForRule(i) ==
    {f \in [Tickets -> BrokerOutcomes] :
        \A t \in Tickets : ~ MayAttempt(i, t) => f[t] = "ok"}

RECURSIVE OutcomesFrom(_)
OutcomesFrom(i) ==
    IF i > Len(profit_taking_rules) THEN { << >> }
    ELSE {<<f>> \o rest : f \in OutcomesForRule(i), rest \in OutcomesFrom(i + 1)}

OutcomeChoices == OutcomesFrom(1)

\* ProfitMonitor.check_profit_taking(current_time = now)
CheckProfitTaking(outcomes) ==
    LET early == broker = "none" \/ active_positions = << >>
    IN  \E acc \in {RunRules(1, [rules |-> profit_taking_rules,
                                 positions |-> active_positions,
                                 closed_tickets |-> << >>, walks |-> << >>],
                             now, outcomes)} :
        /\ profit_taking_rules' = IF early THEN profit_taking_rules ELSE acc.rules
        /\ active_positions' = IF early THEN active_positions ELSE acc.positions
        /\ ruleFirings' = IF early THEN ruleFirings
                          ELSE [i \in 1..Len(ruleFirings) |->
                                  IF acc.walks[i].closed # << >>
                                  THEN ruleFirings[i] \cup {now}
                                  ELSE ruleFirings[i]]
        /\ lastTick' = [time |-> now,
                        order |-> TicketsOf(active_positions),
                        before |-> [i \in 1..Len(profit_taking_rules) |->
                                      profit_taking_rules[i].last_execution],
                        closed_tickets |-> IF early THEN << >> ELSE acc.closed_tickets,
                        walks |-> IF early
                                  THEN [i \in 1..Len(profit_taking_rules) |->
                                          [ran |-> FALSE, cands |-> << >>,
                                           attempts |-> << >>, closed |-> << >>]]
                                  ELSE acc.walks]
        /\ ruleCall' = NoCall
        /\ UNCHANGED <<now, broker, sessionVars, botVars, riskVars>>

\* ProfitMonitor.add_active_position, called by TradingBot._record_trade
\* with the session whose analysis placed the trade
AddActivePosition(ticket, symbol, volume, session) ==
    /\ session \in GetActiveSessions(now)
    /\ active_positions' =
          PutPosition(active_positions, ActivePosition(ticket, symbol, volume, session))
    /\ lastTick' = NoTick
    /\ ruleCall' = NoCall
    /\ UNCHANGED <<now, sessionVars, botVars, broker, profit_taking_rules, ruleFirings,
                   riskVars>>

\* ProfitMonitor.remove_active_position
RemoveActivePosition(ticket) ==
    /\ active_positions' = RemoveTicket(active_positions, ticket)
    /\ lastTick' = NoTick
    /\ ruleCall' = NoCall
    /\ UNCHANGED <<now, sessionVars, botVars, broker, profit_taking_rules, ruleFirings,
                   riskVars>>

\* ProfitMonitor.update_position_profit
UpdatePositionProfit(ticket, profit_pips) ==
    /\ active_positions' =
          IF ticket \in TicketSet(active_positions)
          THEN [active_positions EXCEPT
                  ![IndexOf(active_positions, ticket)].current_profit_pips = profit_pips]
          ELSE active_positions
    /\ lastTick' = NoTick
    /\ ruleCall' = NoCall
    /\ UNCHANGED <<now, sessionVars, botVars, broker, profit_taking_rules, ruleFirings,
                   riskVars>>

\* time passes
AdvanceClock(d) ==
    /\ now + d <= MaxNow
    /\ now' = now + d
    /\ lastTick' = NoTick
    /\ ruleCall' = NoCall
    /\ UNCHANGED <<sessionVars, botVars, broker, profit_taking_rules, active_positions,
                   ruleFirings, riskVars>>

\* ProfitMonitor._initialize_default_profit_taking_rules
DefaultRules ==
    << ProfitTakingRule("Scalping Quick Profit", 15, 10, 5, 3, "none", "none"),
       ProfitTakingRule("Medium Term Profit", 60, 20, 7, 5, "none", "none"),
       ProfitTakingRule("Session End Profit", 240, 30, 8, 10, "none", "none"),
       ProfitTakingRule("Asian Session Profit", 120, 15, 6, 3, "asian", "none"),
       ProfitTakingRule("London Session Profit", 90, 25, 7, 5, "london", "none") >>

\* ProfitMonitor.set_broker
SetBroker ==
    /\ broker' = "set"
    /\ lastTick' = NoTick
    /\ ruleCall' = NoCall
    /\ UNCHANGED <<now, sessionVars, botVars, profit_taking_rules, active_positions,
                   ruleFirings, riskVars>>

\* ProfitMonitor.add_profit_taking_rule
AddProfitTakingRule(rule) ==
    /\ Len(profit_taking_rules) < MaxRules
    /\ profit_taking_rules' = Append(profit_taking_rules, rule)
    /\ ruleFirings' = Append(ruleFirings, {})
    /\ lastTick' = NoTick
    /\ ruleCall' = [op |-> "add_profit_taking_rule", name |-> rule.name]
    /\ UNCHANGED <<now, sessionVars, botVars, broker, active_positions, riskVars>>

\* the places of a list of rules that do not bear the name, in order
RECURSIVE KeptPlaces(_, _, _)
KeptPlaces(rules, rule_name, i) ==
    IF i > Len(rules) THEN << >>
    ELSE IF rules[i].name # rule_name
    THEN <<i>> \o KeptPlaces(rules, rule_name, i + 1)
    ELSE KeptPlaces(rules, rule_name, i + 1)

\* ProfitMonitor.remove_profit_taking_rule:
\* "[r for r in self.profit_taking_rules if r.name != rule_name]"
RemoveProfitTakingRule(rule_name) ==
    /\ \E kept \in {KeptPlaces(profit_taking_rules, rule_name, 1)} :
          /\ profit_taking_rules' = [k \in 1..Len(kept) |-> profit_taking_rules[kept[k]]]
          /\ ruleFirings' = [k \in 1..Len(kept) |-> ruleFirings[kept[k]]]
    /\ lastTick' = NoTick
    /\ ruleCall' = [op |-> "remove_profit_taking_rule", name |-> rule_name]
    /\ UNCHANGED <<now, sessionVars, botVars, broker, active_positions, riskVars>>

\* the place of the first rule of that name, 0 if there is none
FirstNamed(rules, rule_name) ==
    IF \E i \in 1..Len(rules) : rules[i].name = rule_name
    THEN CHOOSE i \in 1..Len(rules) :
            /\ rules[i].name = rule_name
            /\ \A j \in 1..(i - 1) : rules[j].name # rule_name
    ELSE 0

\* the flag of every rule of that name set, and its last_execution lost
SetEnabledMut(rules, rule_name, flag) ==
    [i \in 1..Len(rules) |->
        IF rules[i].name = rule_name
        THEN [rules[i] EXCEPT !.enabled = flag, !.last_execution = None]
        ELSE rules[i]]

\* "for rule in self.profit_taking_rules: if rule.name == rule_name:
\* rule.enabled = ...; break"
SetEnabled(rules, rule_name, flag) ==
    IF FirstNamed(rules, rule_name) = 0 THEN rules
    ELSE [rules EXCEPT ![FirstNamed(rules, rule_name)].enabled = flag]

\* ProfitMonitor.enable_profit_taking_rule
EnableProfitTakingRule(rule_name) ==
    /\ profit_taking_rules' = SetEnabled(profit_taking_rules, rule_name, TRUE)
    /\ lastTick' = NoTick
    /\ ruleCall' = [op |-> "enable_profit_taking_rule", name |-> rule_name]
    /\ UNCHANGED <<now, sessionVars, botVars, broker, active_positions, ruleFirings,
                   riskVars>>

\* ProfitMonitor.disable_profit_taking_rule
DisableProfitTakingRule(rule_name) ==
    /\ profit_taking_rules' = SetEnabled(profit_taking_rules, rule_name, FALSE)
    /\ lastTick' = NoTick
    /\ ruleCall' = [op |-> "disable_profit_taking_rule", name |-> rule_name]
    /\ UNCHANGED <<now, sessionVars, botVars, broker, active_positions, ruleFirings,
                   riskVars>>

\* ProfitMonitor.get_rule_statistics, as test_rule_statistics and
\* profit_taking_example.py call it.  The class defines no such method and
\* no counter of triggers, actions or profit: the call raises
\* AttributeError and leaves the engine as it is.
GetRuleStatistics ==
    /\ ruleCall' = [op |-> "get_rule_statistics", result |-> "AttributeError"]
    /\ lastTick' = NoTick
    /\ UNCHANGED <<now, sessionVars, botVars, broker, profit_taking_rules,
                   active_positions, ruleFirings, riskVars>>

\* ProfitMonitor.get_profit_taking_status: a dictionary built from the rules
\* and the tracked positions ("sorted" makes a list of its own)
GetProfitTakingStatus ==
    /\ ruleCall' = [op |-> "get_profit_taking_status",
                    rules |-> [i \in 1..Len(profit_taking_rules) |->
                                 [name |-> profit_taking_rules[i].name,
                                  enabled |-> profit_taking_rules[i].enabled,
                                  last_execution |-> profit_taking_rules[i].last_execution]],
                    active_positions |-> Len(active_positions)]
    /\ lastTick' = NoTick
    /\ UNCHANGED <<now, sessionVars, botVars, broker, profit_taking_rules,
                   active_positions, ruleFirings, riskVars>>

\* position sizes on offer: 2 and 4 minimum lots
VolumeInputs == {2 * MinLot, 4 * MinLot}

----------------------------------------------------------------------------
(* RiskManager *)

\* the day of datetime.now().date()
Today == now \div DayMinutes

\* RiskConfig: max_position_size and max_daily_loss are fractions of the
\* balance, held here in percent
RiskConfig(trailing) ==
    [max_position_size |-> 3, max_daily_loss |-> 2, max_open_positions |-> 1,
     trailing_stop |-> trailing, trailing_stop_pips |-> 1]

\* Position.__init__
Position(ticket, order_type, volume, price, sl, tp) ==
    [ticket |-> ticket, order_type |-> order_type, volume |-> volume,
     price |-> price, sl |-> sl, tp |-> tp, current_price |-> price,
     unrealized_pnl |-> 0, realized_pnl |-> 0]

\* the P&L of a position at a price, by side
PnlAt(pos, p) ==
    IF pos.order_type = "BUY" THEN (p - pos.price) * pos.volume
    ELSE (pos.price - p) * pos.volume

\* Position.update_price
UpdatePrice(pos, p) ==
    [pos EXCEPT !.current_price = p, !.unrealized_pnl = PnlAt(pos, p)]

Abs(x) == IF x < 0 THEN -x ELSE x

\* the breaker of the day before kept across the reset
ResetDailyMetricsMut ==
    IF Today > last_reset_date
    THEN [daily_pnl |-> 0, daily_trades |-> 0,
          max_daily_loss_reached |-> max_daily_loss_reached,
          last_reset_date |-> Today]
    ELSE [daily_pnl |-> daily_pnl, daily_trades |-> daily_trades,
          max_daily_loss_reached |-> max_daily_loss_reached,
          last_reset_date |-> last_reset_date]

\* RiskManager.reset_daily_metrics: the daily state after the call
ResetDailyMetrics ==
    IF Today > last_reset_date
    THEN [daily_pnl |-> 0, daily_trades |-> 0, max_daily_loss_reached |-> FALSE,
          last_reset_date |-> Today]
    ELSE [daily_pnl |-> daily_pnl, daily_trades |-> daily_trades,
          max_daily_loss_reached |-> max_daily_loss_reached,
          last_reset_date |-> last_reset_date]

\* the breaker never consulted
BreakerTrippedMut(d) == FALSE

\* "if self.max_daily_loss_reached"
BreakerTripped(d) == d.max_daily_loss_reached

\* a book of exactly the maximum admitted
AtPositionCapMut(book) == Cardinality(DOMAIN book) > config.max_open_positions

\* "if len(self.positions) >= self.config.max_open_positions"
AtPositionCap(book) == Cardinality(DOMAIN book) >= config.max_open_positions

\* "if abs(self.daily_pnl) >= balance * self.config.max_daily_loss"
DailyLossBreached(pnl, balance) == Abs(pnl) * 100 >= balance * config.max_daily_loss

\* the checks of can_open_position after the daily reset, in the order of
\* the code.  account is None or the balance, ask is None (no symbol
\* information) or the ask price.
CanOpenDecision(d, volume, account, ask) ==
    IF BreakerTripped(d)
    THEN [allowed |-> FALSE, reason |-> "Daily loss limit reached", latch |-> FALSE]
    ELSE IF AtPositionCap(positions)
    THEN [allowed |-> FALSE, reason |-> "Maximum open positions reached", latch |-> FALSE]
    ELSE IF account = None
    THEN [allowed |-> FALSE, reason |-> "Unable to get account information", latch |-> FALSE]
    ELSE IF ask = None
    THEN [allowed |-> FALSE, reason |-> "Unable to get symbol information", latch |-> FALSE]
    ELSE IF volume * ask * 100 > account * config.max_position_size
    THEN [allowed |-> FALSE, reason |-> "Position size exceeds maximum", latch |-> FALSE]
    ELSE IF DailyLossBreached(d.daily_pnl, account)
    THEN [allowed |-> FALSE, reason |-> "Daily loss limit would be exceeded", latch |-> TRUE]
    ELSE [allowed |-> TRUE, reason |-> "Position can be opened", latch |-> FALSE]

\* RiskManager.can_open_position
CanOpenPosition(volume, account, ask) ==
    LET d == ResetDailyMetrics
        r == CanOpenDecision(d, volume, account, ask)
    IN  /\ daily_pnl' = d.daily_pnl
        /\ daily_trades' = d.daily_trades
        /\ last_reset_date' = d.last_reset_date
        /\ max_daily_loss_reached' = (d.max_daily_loss_reached \/ r.latch)
        /\ riskCall' = [op |-> "can_open_position", allowed |-> r.allowed,
                        reason |-> r.reason]
        /\ UNCHANGED <<now, sessionVars, botVars, engineVars, config, positions,
                       total_trades, winning_trades, losing_trades,
                       current_drawdown,
                   peak_balance, max_drawdown>>

\* RiskManager.add_position
AddPosition(pos) ==
    /\ total_trades < MaxTrades
    /\ positions' = [t \in DOMAIN positions \cup {pos.ticket} |->
                       IF t = pos.ticket THEN pos ELSE positions[t]]
    /\ daily_trades' = daily_trades + 1
    /\ total_trades' = total_trades + 1
    /\ riskCall' = [op |-> "add_position"]
    /\ UNCHANGED <<now, sessionVars, botVars, engineVars, config, daily_pnl,
                   max_daily_loss_reached, last_reset_date, winning_trades,
                   losing_trades, current_drawdown,
                   peak_balance, max_drawdown>>

\* Position.close(close_price) on a position of the book
ClosePosition(ticket, close_price) ==
    /\ ticket \in DOMAIN positions
    /\ positions' = [positions EXCEPT
                       ![ticket].realized_pnl = PnlAt(positions[ticket], close_price)]
    /\ riskCall' = [op |-> "close"]
    /\ UNCHANGED <<now, sessionVars, botVars, engineVars, config, daily_pnl, daily_trades,
                   max_daily_loss_reached, last_reset_date, total_trades,
                   winning_trades, losing_trades, current_drawdown,
                   peak_balance, max_drawdown>>

\* a trade that broke even counted as won
TradeOutcomeMut(realized) ==
    [winning |-> IF realized >= 0 THEN 1 ELSE 0,
     losing |-> IF realized < 0 THEN 1 ELSE 0]

\* "if position.realized_pnl > 0: self.winning_trades += 1
\* elif position.realized_pnl < 0: self.losing_trades += 1"
TradeOutcome(realized) ==
    [winning |-> IF realized > 0 THEN 1 ELSE 0,
     losing |-> IF realized < 0 THEN 1 ELSE 0]

\* RiskManager.remove_position
RemovePosition(ticket) ==
    /\ riskCall' = [op |-> "remove_position", ticket |-> ticket,
                    found |-> ticket \in DOMAIN positions]
    /\ IF ticket \in DOMAIN positions
       THEN LET realized == positions[ticket].realized_pnl
            IN  /\ winning_trades' = winning_trades + TradeOutcome(realized).winning
                /\ losing_trades' = losing_trades + TradeOutcome(realized).losing
                /\ daily_pnl' = daily_pnl + realized
                /\ positions' = [t \in DOMAIN positions \ {ticket} |-> positions[t]]
       ELSE UNCHANGED <<winning_trades, losing_trades, daily_pnl, positions>>
    /\ UNCHANGED <<now, sessionVars, botVars, engineVars, config, daily_trades,
                   max_daily_loss_reached, last_reset_date, total_trades,
                   current_drawdown,
                   peak_balance, max_drawdown>>

\* broker.get_current_price answering None
NoQuote == [available |-> FALSE, bid |-> None, ask |-> None]

\* the book without refreshing the prices
PricedBookMut(book, quotes) == book

\* the loop of update_positions over a book: a BUY is priced at the bid, the
\* others at the ask, a position without a quote is left as it is
PricedBook(book, quotes) ==
    [t \in DOMAIN book |->
        LET pos == book[t]
            current_price == quotes[SymbolOfTicket[t]]
        IN  IF ~ current_price.available THEN pos
            ELSE IF pos.order_type = "BUY"
                 THEN UpdatePrice(pos, current_price.bid)
                 ELSE UpdatePrice(pos, current_price.ask)]

\* RiskManager.update_positions: quotes is what broker.get_current_price
\* answers per symbol, None or a bid and an ask
UpdatePositions(quotes) ==
    /\ positions' = PricedBook(positions, quotes)
    /\ riskCall' = [op |-> "update_positions"]
    /\ UNCHANGED <<now, sessionVars, botVars, engineVars, config, daily_pnl, daily_trades,
                   max_daily_loss_reached, last_reset_date, total_trades,
                   winning_trades, losing_trades, current_drawdown,
                   peak_balance, max_drawdown>>

\* the stop apply_trailing_stop proposes for a position:
\* current_price -/+ trailing_stop_pips * 0.0001
ProposedStop(pos) ==
    IF pos.order_type = "BUY"
    THEN pos.current_price - config.trailing_stop_pips
    ELSE pos.current_price + config.trailing_stop_pips

\* a loosening stop accepted too
TrailAcceptsMut(pos) == pos.sl # None /\ ProposedStop(pos) # pos.sl

\* "if position.sl is None: continue", then "if new_sl > position.sl" for a
\* BUY and "if new_sl < position.sl" for the others
TrailAccepts(pos) ==
    /\ pos.sl # None
    /\ IF pos.order_type = "BUY"
       THEN ProposedStop(pos) > pos.sl
       ELSE ProposedStop(pos) < pos.sl

\* the tickets apply_trailing_stop returns for a book: "if not
\* self.config.trailing_stop: return []", then every position whose stop it
\* moves
TrailTickets(book) ==
    IF ~ config.trailing_stop THEN {}
    ELSE {t \in DOMAIN book : TrailAccepts(book[t])}

\* the book apply_trailing_stop leaves: "position.sl = new_sl"
TrailedBook(book) ==
    [t \in DOMAIN book |->
        IF t \in TrailTickets(book)
        THEN [book[t] EXCEPT !.sl = ProposedStop(book[t])]
        ELSE book[t]]

\* RiskManager.apply_trailing_stop; the tickets it returns are kept as a set
ApplyTrailingStop ==
    LET tickets_to_modify == TrailTickets(positions)
    IN  /\ positions' = TrailedBook(positions)
        /\ riskCall' = [op |-> "apply_trailing_stop", tickets |-> tickets_to_modify]
        /\ UNCHANGED <<now, sessionVars, botVars, engineVars, config, daily_pnl,
                       daily_trades, max_daily_loss_reached, last_reset_date,
                       total_trades, winning_trades, losing_trades,
                       current_drawdown,
                   peak_balance, max_drawdown>>

\* RiskManager.should_close_all_positions
ShouldCloseAllPositions(account) ==
    LET d == ResetDailyMetrics
    IN  /\ daily_pnl' = d.daily_pnl
        /\ daily_trades' = d.daily_trades
        /\ last_reset_date' = d.last_reset_date
        /\ max_daily_loss_reached' = d.max_daily_loss_reached
        /\ riskCall' = [op |-> "should_close_all_positions", balance |-> account,
                        result |-> IF account = None THEN FALSE
                                   ELSE \/ DailyLossBreached(d.daily_pnl, account)
                                        \/ current_drawdown >= HardDrawdownPct]
        /\ UNCHANGED <<now, sessionVars, botVars, engineVars, config, positions,
                       total_trades, winning_trades, losing_trades,
                       current_drawdown,
                   peak_balance, max_drawdown>>

\* a stop met only once the price has gone through it
StopLossHitMut(pos) ==
    /\ pos.sl # None
    /\ IF pos.order_type = "BUY" THEN pos.current_price < pos.sl
       ELSE pos.current_price > pos.sl

\* "if position.sl is None: continue", then the test of check_stop_losses
\* by side
StopLossHit(pos) ==
    /\ pos.sl # None
    /\ \/ pos.order_type = "BUY" /\ pos.current_price <= pos.sl
       \/ pos.order_type = "SELL" /\ pos.current_price >= pos.sl

\* "if position.tp is None: continue", then the test of check_take_profits
\* by side
TakeProfitHit(pos) ==
    /\ pos.tp # None
    /\ \/ pos.order_type = "BUY" /\ pos.current_price >= pos.tp
       \/ pos.order_type = "SELL" /\ pos.current_price <= pos.tp

\* RiskManager.check_stop_losses; the tickets it returns are kept as a set
CheckStopLosses ==
    /\ riskCall' = [op |-> "check_stop_losses",
                    tickets |-> {t \in DOMAIN positions : StopLossHit(positions[t])}]
    /\ UNCHANGED <<now, sessionVars, botVars, engineVars, config, positions, daily_pnl,
                   daily_trades, max_daily_loss_reached, last_reset_date,
                   total_trades, winning_trades, losing_trades,
                   current_drawdown, peak_balance, max_drawdown>>

\* RiskManager.check_take_profits; the tickets it returns are kept as a set
CheckTakeProfits ==
    /\ riskCall' = [op |-> "check_take_profits",
                    tickets |-> {t \in DOMAIN positions : TakeProfitHit(positions[t])}]
    /\ UNCHANGED <<now, sessionVars, botVars, engineVars, config, positions, daily_pnl,
                   daily_trades, max_daily_loss_reached, last_reset_date,
                   total_trades, winning_trades, losing_trades,
                   current_drawdown, peak_balance, max_drawdown>>

\* "sum(pos.unrealized_pnl for pos in self.positions.values())" over the
\* tickets of S
RECURSIVE TotalUnrealized(_, _)
TotalUnrealized(book, S) ==
    IF S = {} THEN 0
    ELSE LET t == CHOOSE x \in S : TRUE
         IN  book[t].unrealized_pnl + TotalUnrealized(book, S \ {t})

\* "balance + self.daily_pnl + total_unrealized", the balance being 0 when
\* the broker has no account information
CurrentEquity(account) ==
    (IF account = None THEN 0 ELSE account) + daily_pnl
        + TotalUnrealized(positions, DOMAIN positions)

\* "(self.peak_balance - current_equity) / self.peak_balance if
\* self.peak_balance > 0 else 0", in whole percent.  The peak is never below
\* the equity, and the tests the code makes of a drawdown (>= 0.1, >= 0.05)
\* give the same answer on the whole percent.
DrawdownPct(peak, equity) ==
    IF peak > 0 THEN ((peak - equity) * 100) \div peak ELSE 0

\* RiskManager.get_risk_metrics: it moves the peak, the current and the
\* greatest drawdown before it returns them
GetRiskMetrics(account) ==
    LET current_equity == CurrentEquity(account)
        peak == IF current_equity > peak_balance THEN current_equity
                ELSE peak_balance
        drawdown == DrawdownPct(peak, current_equity)
    IN  /\ peak_balance' = peak
        /\ current_drawdown' = drawdown
        /\ max_drawdown' = IF drawdown > max_drawdown THEN drawdown ELSE max_drawdown
        /\ riskCall' = [op |-> "get_risk_metrics", current_drawdown |-> drawdown]
        /\ UNCHANGED <<now, sessionVars, botVars, engineVars, config, positions,
                       daily_pnl, daily_trades, max_daily_loss_reached,
                       last_reset_date, total_trades, winning_trades,
                       losing_trades>>

\* the breaker reported only on the day it was latched
RiskAlertsMut(account) ==
    (IF max_daily_loss_reached /\ Today <= last_reset_date
     THEN {"Daily loss limit reached"} ELSE {})
    \cup (IF AtPositionCap(positions)
          THEN {"Maximum open positions reached"} ELSE {})
    \cup (IF current_drawdown >= HighDrawdownPct THEN {"High drawdown"} ELSE {})
    \cup (IF account # None
             /\ Abs(daily_pnl) * 100 * 10 >= account * config.max_daily_loss * 8
          THEN {"Approaching daily loss limit"} ELSE {})

\* the alerts of get_risk_alerts, as a set; the drawdown alert is kept
\* without its figure.  "abs(self.daily_pnl) >= balance *
\* self.config.max_daily_loss * 0.8" is taken in tenths.
RiskAlerts(account) ==
    (IF max_daily_loss_reached THEN {"Daily loss limit reached"} ELSE {})
    \cup (IF AtPositionCap(positions)
          THEN {"Maximum open positions reached"} ELSE {})
    \cup (IF current_drawdown >= HighDrawdownPct THEN {"High drawdown"} ELSE {})
    \cup (IF account # None
             /\ Abs(daily_pnl) * 100 * 10 >= account * config.max_daily_loss * 8
          THEN {"Approaching daily loss limit"} ELSE {})

\* RiskManager.get_risk_alerts
GetRiskAlerts(account) ==
    /\ riskCall' = [op |-> "get_risk_alerts", alerts |-> RiskAlerts(account)]
    /\ UNCHANGED <<now, sessionVars, botVars, engineVars, config, positions, daily_pnl,
                   daily_trades, max_daily_loss_reached, last_reset_date,
                   total_trades, winning_trades, losing_trades,
                   current_drawdown, peak_balance, max_drawdown>>

\* midnight passes
AdvanceDay ==
    /\ Today < MaxDay
    /\ now' = now + DayMinutes
    /\ riskCall' = NoCall
    /\ UNCHANGED <<sessionVars, botVars, engineVars, config, positions, daily_pnl,
                   daily_trades, max_daily_loss_reached, last_reset_date,
                   total_trades, winning_trades, losing_trades, current_drawdown,
                   peak_balance, max_drawdown>>

\* RiskManager.__init__ at the present time
InitRiskManager(risk_config) ==
    /\ config = risk_config
    /\ positions = << >>
    /\ daily_pnl = 0
    /\ daily_trades = 0
    /\ max_daily_loss_reached = FALSE
    /\ last_reset_date = Today
    /\ total_trades = 0
    /\ winning_trades = 0
    /\ losing_trades = 0
    /\ current_drawdown = 0
    /\ peak_balance = 0
    /\ max_drawdown = 0
    /\ riskCall = NoCall

\* SessionManager.__init__ and an empty schedule
SchedulerIdle ==
    /\ jobs = << >>
    /\ session_callbacks = << >>
    /\ sessCall = NoSessCall

\* TradingBot.__init__ before start(): no thread runs, the broker is not
\* connected
BotIdle ==
    /\ threads = [th \in Threads |-> [pc |-> "unstarted", todo |-> << >>]]
    /\ running = FALSE
    /\ sm_running = FALSE
    /\ connected = FALSE
    /\ stopPc = "none"
    /\ callLog = EmptyBag

\* ProfitMonitor.__init__ without rules, before set_broker
EngineIdle ==
    /\ broker = "none"
    /\ profit_taking_rules = << >>
    /\ active_positions = << >>
    /\ ruleFirings = << >>
    /\ lastTick = NoTick
    /\ ruleCall = NoCall

----------------------------------------------------------------------------
(* TradingBot: the trades it opens, its risk-management cycle and its     *)
(* profit check, over the book of the RiskManager and the positions the   *)
(* ProfitMonitor tracks                                                   *)

\* the balance of the account of the running bot
BotBalance == 1000

\* symbol_info 'volume_max' and 'volume_step' of the broker: here four
\* minimum lots at most, in steps of one minimum lot
VolumeMax == 4 * MinLot

VolumeStep == MinLot

\* the distance of the stop from the open price, stop_loss_pips * 0.0001 in
\* the code, in price units of the model
StopDistance == 1

\* round(n / d) of Python: to the nearest integer, a half to the even one
RoundHalfEven(n, d) ==
    LET q == n \div d
        r == n % d
    IN  IF 2 * r < d THEN q
        ELSE IF 2 * r > d THEN q + 1
        ELSE IF q % 2 = 0 THEN q ELSE q + 1

\* RiskManager.calculate_position_size: 0 without symbol information or
\* with a stop that is not positive, else risk_amount / risk_per_lot held
\* between volume_min and volume_max and rounded to the volume step.
\* risk_amount_pct is the risk amount in hundredths, and a lot is 100
\* minimum lots.
CalculatePositionSize(symbol_known, risk_amount_pct, stop) ==
    IF ~ symbol_known \/ stop <= 0 THEN 0
    ELSE LET position_size == (risk_amount_pct * MinLot) \div stop
             held == IF position_size > VolumeMax THEN VolumeMax
                     ELSE IF position_size < MinLot THEN MinLot
                     ELSE position_size
         IN  RoundHalfEven(held, VolumeStep) * VolumeStep

\* RiskConfig of the running bot: two positions at most, trailing stops on
BotRiskConfig ==
    [RiskConfig(TRUE) EXCEPT !.max_open_positions = 2]

\* what broker.get_current_price answers when a trade is opened and when it
\* is recorded
OpenQuotes == {NoQuote, [available |-> TRUE, bid |-> 3, ask |-> 3]}

\* what broker.get_current_price answers in a risk-management cycle
CycleQuotes == {[available |-> TRUE, bid |-> 1, ask |-> 1],
                [available |-> TRUE, bid |-> 3, ask |-> 3]}

\* what happens inside MT5Broker.close_order: the order is closed, the
\* server refuses it, or a call of the terminal raises
CloseOutcomes == {"ok", "rejected", "error"}

\* MT5Broker.close_order: True only for a close the server has done; a
\* refusal returns False and "except Exception" returns False
CloseOrder(outcome) == outcome = "ok"

\* an error inside close_order reaching the caller
CloseOrderRaisesMut(outcome) == outcome = "error"

\* MT5Broker.close_order and modify_order hold their whole body in
\* "try: ... except Exception as e: ... return False": nothing is raised to
\* the caller
CloseOrderRaises(outcome) == FALSE

\* the tickets of S in the order of the dict, which is the order in which
\* the broker gave them out
RECURSIVE InTicketOrder(_)
InTicketOrder(S) ==
    IF S = {} THEN << >>
    ELSE LET m == CHOOSE x \in S : \A y \in S : x <= y
         IN  <<m>> \o InTicketOrder(S \ {m})

\* RiskManager.remove_position on the state st of a cycle
Retire(st, ticket) ==
    IF ticket \in DOMAIN st.positions
    THEN LET realized == st.positions[ticket].realized_pnl
         IN  [st EXCEPT
                !.winning_trades = @ + TradeOutcome(realized).winning,
                !.losing_trades = @ + TradeOutcome(realized).losing,
                !.daily_pnl = @ + realized,
                !.positions = [t \in DOMAIN st.positions \ {ticket} |->
                                 st.positions[t]]]
    ELSE st

\* "for ticket in ...: if self.broker.close_order(ticket):
\* self.risk_manager.remove_position(ticket)" from place k on.  Nothing in
\* the loop catches an exception: one that close_order raised would leave
\* the loop and the rest of the cycle for the "except" of
\* _update_risk_management.
RECURSIVE CloseTickets(_, _, _, _)
CloseTickets(st, tickets, k, outcomeOf) ==
    IF k > Len(tickets) THEN st
    ELSE IF CloseOrderRaises(outcomeOf[tickets[k]])
    THEN [st EXCEPT !.aborted = TRUE]
    ELSE IF CloseOrder(outcomeOf[tickets[k]])
    THEN CloseTickets(Only({Retire(st, tickets[k])}), tickets, k + 1, outcomeOf)
    ELSE CloseTickets(st, tickets, k + 1, outcomeOf)

\* what the broker does with the close of each ticket in one cycle; the
\* answers about tickets that are not in the book are fixed
CycleOutcomes ==
    {f \in [Tickets -> CloseOutcomes] :
        \A t \in Tickets : t \notin DOMAIN positions => f[t] = "ok"}

\* TradingBot._update_risk_management, with _close_all_positions.  quotes
\* is what get_current_price answers per symbol, outcomeOf what close_order
\* does per ticket, account the balance get_account_info answers or None.
UpdateRiskManagement(quotes, outcomeOf, account) ==
    \E priced \in {PricedBook(positions, quotes)} :
    \E triggered \in
          {InTicketOrder({t \in DOMAIN priced : StopLossHit(priced[t])})
             \o InTicketOrder({t \in DOMAIN priced : TakeProfitHit(priced[t])})} :
    \* "for ticket in sl_tickets + tp_tickets"
    \E st1 \in {CloseTickets([positions |-> priced, daily_pnl |-> daily_pnl,
                              winning_trades |-> winning_trades,
                              losing_trades |-> losing_trades, aborted |-> FALSE],
                             triggered, 1, outcomeOf)} :
    \* apply_trailing_stop; what modify_order answers is not looked at
    \E trailing_tickets \in {IF st1.aborted THEN {} ELSE TrailTickets(st1.positions)} :
    \E st2 \in {IF st1.aborted THEN st1
                ELSE [st1 EXCEPT !.positions = TrailedBook(st1.positions)]} :
    \* should_close_all_positions: reset_daily_metrics, then its tests
    \E reset \in {~ st2.aborted /\ Today > last_reset_date} :
    \E pnl \in {IF reset THEN 0 ELSE st2.daily_pnl} :
    \E close_all \in {/\ ~ st2.aborted
                      /\ account # None
                      /\ \/ DailyLossBreached(pnl, account)
                         \/ current_drawdown >= HardDrawdownPct} :
    \* _close_all_positions
    \E st3 \in {IF close_all
                THEN CloseTickets([st2 EXCEPT !.daily_pnl = pnl],
                                  InTicketOrder(DOMAIN st2.positions), 1, outcomeOf)
                ELSE [st2 EXCEPT !.daily_pnl = pnl]} :
        /\ positions' = st3.positions
        /\ daily_pnl' = st3.daily_pnl
        /\ winning_trades' = st3.winning_trades
        /\ losing_trades' = st3.losing_trades
        /\ daily_trades' = IF reset THEN 0 ELSE daily_trades
        /\ max_daily_loss_reached' = IF reset THEN FALSE ELSE max_daily_loss_reached
        /\ last_reset_date' = IF reset THEN Today ELSE last_reset_date
        /\ riskCall' = [op |-> "update_risk_management",
                        quotes |-> quotes,
                        triggered |-> triggered,
                        outcome |-> outcomeOf,
                        trailing |-> trailing_tickets,
                        close_all |-> close_all]
        /\ lastTick' = NoTick
        /\ ruleCall' = NoCall
        /\ UNCHANGED <<now, sessionVars, botVars, broker, profit_taking_rules,
                       active_positions, ruleFirings, config, total_trades,
                       current_drawdown, peak_balance, max_drawdown>>

\* TradingBot._execute_strategy_signal: strategy.execute_signal, then
\* _record_trade.  The broker gives out the tickets in order; v is the
\* volume of the signal, which is the one can_open_position is asked
\* about ("signal.get('volume', 0.01)"), quote and record_quote are what
\* get_current_price answers to execute_signal and to _record_trade, placed
\* is the success of place_order, session the session whose analysis gave
\* the signal.
ExecuteSignal(v, account, quote, placed, record_quote, session) ==
    LET ticket == total_trades + 1
        d == ResetDailyMetrics
        r == CanOpenDecision(d, v, account,
                             IF quote.available THEN quote.ask ELSE None)
        \* "risk_amount = balance * max_position_size; volume =
        \* calculate_position_size(symbol, risk_amount, stop_loss_pips)"
        volume == IF account = None THEN 0
                  ELSE CalculatePositionSize(quote.available,
                                             account * config.max_position_size,
                                             StopDistance)
        opened == r.allowed /\ volume > 0 /\ quote.available /\ placed
        price == IF SideOfTicket[ticket] = "BUY" THEN quote.ask ELSE quote.bid
        sl == IF SideOfTicket[ticket] = "BUY" THEN price - StopDistance
              ELSE price + StopDistance
        tp == IF SideOfTicket[ticket] = "BUY" THEN price + 1 ELSE price - 1
        position == Position(ticket, SideOfTicket[ticket], volume, price, sl, tp)
    IN  /\ ticket \in Tickets
        /\ session \in GetActiveSessions(now)
        /\ daily_pnl' = d.daily_pnl
        /\ last_reset_date' = d.last_reset_date
        /\ max_daily_loss_reached' = (d.max_daily_loss_reached \/ r.latch)
        /\ positions' = IF opened
                        THEN [t \in DOMAIN positions \cup {ticket} |->
                                IF t = ticket THEN position ELSE positions[t]]
                        ELSE positions
        /\ daily_trades' = IF opened THEN d.daily_trades + 1 ELSE d.daily_trades
        /\ total_trades' = IF opened THEN total_trades + 1 ELSE total_trades
        /\ active_positions' =
              IF opened /\ record_quote.available
              THEN PutPosition(active_positions,
                       ActivePosition(ticket, SymbolOfTicket[ticket], volume, session))
              ELSE active_positions
        /\ riskCall' = [op |-> "execute_signal", success |-> opened,
                        checked |-> v, account |-> account]
        /\ lastTick' = NoTick
        /\ ruleCall' = NoCall
        /\ UNCHANGED <<now, sessionVars, botVars, broker, profit_taking_rules,
                       ruleFirings, config, winning_trades, losing_trades,
                       current_drawdown, peak_balance, max_drawdown>>

\* "for ticket in closed_tickets:
\* self.profit_monitor.remove_active_position(ticket)" from place k on
RECURSIVE RemoveClosed(_, _, _)
RemoveClosed(tracked, closed_tickets, k) ==
    IF k > Len(closed_tickets) THEN tracked
    ELSE RemoveClosed(RemoveTicket(tracked, closed_tickets[k]), closed_tickets, k + 1)

\* the profits in pips _update_position_profits can find for the tracked
\* positions (None: no price for the symbol, the position is passed over,
\* which is the answer taken for the tickets that are not tracked)
ProfitChoices ==
    {f \in [Tickets -> {None, 10, 20}] :
        \A t \in Tickets : t \in TicketSet(active_positions) <=> f[t] # None}

\* what the broker does with the partial close of each ticket in one profit
\* check; the answers about tickets that are not tracked are fixed
PartialCloseChoices ==
    {f \in [Tickets -> {"ok", "rejected"}] :
        \A t \in Tickets : t \notin TicketSet(active_positions) => f[t] = "ok"}

\* TradingBot._check_profit_taking: _update_position_profits,
\* ProfitMonitor.check_profit_taking, then remove_active_position for every
\* ticket the engine returned, whether it closed it whole or in part
BotCheckProfitTaking(pips, outcomeOf) ==
    LET updated == [i \in 1..Len(active_positions) |->
                      IF pips[active_positions[i].ticket] = None
                      THEN active_positions[i]
                      ELSE [active_positions[i] EXCEPT
                              !.current_profit_pips = pips[active_positions[i].ticket]]]
        early == broker = "none" \/ updated = << >>
    IN  \E acc \in {RunRules(1, [rules |-> profit_taking_rules,
                                 positions |-> updated,
                                 closed_tickets |-> << >>, walks |-> << >>],
                             now, [i \in 1..Len(profit_taking_rules) |-> outcomeOf])} :
        /\ profit_taking_rules' = IF early THEN profit_taking_rules ELSE acc.rules
        /\ active_positions' = IF early THEN updated
                               ELSE RemoveClosed(acc.positions, acc.closed_tickets, 1)
        /\ ruleFirings' = IF early THEN ruleFirings
                          ELSE [i \in 1..Len(ruleFirings) |->
                                  IF acc.walks[i].closed # << >>
                                  THEN ruleFirings[i] \cup {now}
                                  ELSE ruleFirings[i]]
        /\ lastTick' = [time |-> now,
                        order |-> TicketsOf(active_positions),
                        before |-> [i \in 1..Len(profit_taking_rules) |->
                                      profit_taking_rules[i].last_execution],
                        closed_tickets |-> IF early THEN << >> ELSE acc.closed_tickets,
                        walks |-> IF early
                                  THEN [i \in 1..Len(profit_taking_rules) |->
                                          [ran |-> FALSE, cands |-> << >>,
                                           attempts |-> << >>, closed |-> << >>]]
                                  ELSE acc.walks]
        /\ ruleCall' = NoCall
        /\ riskCall' = NoCall
        /\ UNCHANGED <<now, broker, sessionVars, botVars, config, positions,
                       daily_pnl, daily_trades, max_daily_loss_reached,
                       last_reset_date, total_trades, winning_trades,
                       losing_trades, current_drawdown, peak_balance,
                       max_drawdown>>

----------------------------------------------------------------------------
(* The specifications *)

InitSession ==
    /\ now = StartNow
    /\ sessions = << >>
    /\ sessQuery = NoQuery
    /\ SchedulerIdle
    /\ BotIdle
    /\ EngineIdle
    /\ InitRiskManager(RiskConfig(FALSE))

NextSession ==
    \/ \E kind \in QueryKinds, start \in TimeGrid, end \in TimeGrid,
          tz \in TzOffsets, enabled \in BOOLEAN :
          AddSession(kind, start, end, tz, enabled)
    \/ \E kind \in QueryKinds, t \in TimeGrid : IsSessionActiveCall(kind, t)
    \/ \E t \in TimeGrid : GetActiveSessionsCall(t)

SpecSession == InitSession /\ [][NextSession]_vars

(* Sessions registered with good and bad configurations.                  *)

\* "25:00", a time string time(hours, minutes) does not take
BadTime == 1500

\* 08:00, 16:00 and the bad time
RegisterTimes == {480, 960, BadTime}

\* UTC and a timezone name pytz does not know
RegisterTzs == {0, None}

RegisterKinds == {"london", "new_york"}

InitRegister ==
    /\ now = StartNow
    /\ sessions = << >>
    /\ sessQuery = NoQuery
    /\ SchedulerIdle
    /\ BotIdle
    /\ EngineIdle
    /\ InitRiskManager(RiskConfig(FALSE))

NextRegister ==
    \E kind \in RegisterKinds, start \in RegisterTimes, end \in RegisterTimes,
       tz \in RegisterTzs, enabled \in BOOLEAN :
       AddSession(kind, start, end, tz, enabled)

SpecRegister == InitRegister /\ [][NextRegister]_vars

(* The started bot: the scheduler thread and the main loop both call      *)
(* schedule.run_pending while time passes, and the bot is stopped.        *)

\* the places in a callback list of the callbacks that raise
RaisingInputs == SUBSET (1..MaxCallbacks)

\* a second subscriber
CallbackInputs == {"other"}

\* TradingBot.__init__ with the london session of TradingBotConfig.from_env
\* and its callback, then TradingBot.start
InitThreads ==
    /\ now = StartNow
    /\ sessions = [k \in {"london"} |-> MarketSession(480, 960, 0, TRUE)]
    /\ sessQuery = NoQuery
    /\ jobs = ScheduleSession("london", 480, 960)
    /\ session_callbacks = [k \in {"london"} |-> <<"on_session_event">>]
    /\ sessCall = NoSessCall
    /\ threads = [th \in Threads |-> [pc |-> "top", todo |-> << >>]]
    /\ running = TRUE
    /\ sm_running = TRUE
    /\ connected = TRUE
    /\ stopPc = "none"
    /\ callLog = EmptyBag
    /\ EngineIdle
    /\ InitRiskManager(RiskConfig(FALSE))

NextThreads ==
    \/ \E cb \in CallbackInputs : AddSessionCallback("london", cb)
    \/ \E th \in Threads : LoopCheck(th)
    \/ \E th \in Threads : RunPending(th)
    \/ \E th \in Threads, raising \in RaisingInputs : RunJob(th, raising)
    \/ \E th \in Threads : JobsDone(th)
    \/ MainLoopStep
    \/ \E th \in Threads : Sleep(th)
    \/ Stop
    \/ \E d \in ClockSteps : AdvanceClock(d)
    \/ AdvanceDay

SpecThreads == InitThreads /\ [][NextThreads]_vars

\* the times of day at which the sessions are asked about: 02:00 and 10:00
NotifyTimes == {120, 600}

\* the two loops dispatch the session notifications, on time, late, twice or
\* not at all, while the session queries are made
NextNotify ==
    \/ \E th \in Threads : LoopCheck(th)
    \/ \E th \in Threads : RunPending(th)
    \/ \E th \in Threads : RunJob(th, {})
    \/ \E th \in Threads : JobsDone(th)
    \/ MainLoopStep
    \/ \E th \in Threads : Sleep(th)
    \/ \E d \in ClockSteps : AdvanceClock(d)
    \/ AdvanceDay
    \/ \E t \in NotifyTimes : IsSessionActiveCall("london", t)
    \/ \E t \in NotifyTimes : GetActiveSessionsCall(t)

SpecNotify == InitThreads /\ [][NextNotify]_vars

InitEngine ==
    /\ now = StartNow
    /\ sessions = DefaultSessions
    /\ sessQuery = NoQuery
    /\ SchedulerIdle
    /\ BotIdle
    /\ broker = "set"        \* TradingBot.__init__ calls set_broker at once
    /\ profit_taking_rules \in RuleConfigs
    /\ active_positions = << >>
    /\ ruleFirings = [i \in 1..Len(profit_taking_rules) |-> {}]
    /\ lastTick = NoTick
    /\ ruleCall = NoCall
    /\ InitRiskManager(RiskConfig(FALSE))

NextEngine ==
    \/ \E t \in Tickets, v \in VolumeInputs, k \in SessionType :
          AddActivePosition(t, SymbolOfTicket[t], v, k)
    \/ \E t \in Tickets : RemoveActivePosition(t)
    \/ \E t \in Tickets, p \in PipInputs : UpdatePositionProfit(t, p)
    \/ \E o \in OutcomeChoices : CheckProfitTaking(o)
    \/ \E d \in ClockSteps : AdvanceClock(d)

SpecEngine == InitEngine /\ [][NextEngine]_vars

\* the rules callers build, those of test_rule_validation among them: an
\* interval of 0, a fraction of 1.5 and a maximum of 0 trades
RuleTest == ProfitTakingRule("Test Rule", 30, 15, 5, 2, "none", "none")
RuleBadInterval == ProfitTakingRule("Invalid Rule", 0, 15, 5, 2, "none", "none")
RuleBadFraction == ProfitTakingRule("Invalid Rule", 30, 15, 15, 2, "none", "none")
RuleBadMaxTrades == ProfitTakingRule("Invalid Rule", 30, 15, 5, 0, "none", "none")

RuleInputs == {RuleTest, RuleBadInterval, RuleBadFraction, RuleBadMaxTrades}

\* the names callers remove, enable and disable
RuleNameInputs == {"Test Rule", "Invalid Rule", "London Session Profit", "No Such Rule"}

\* ProfitMonitor.__init__
InitRuleList ==
    /\ now = StartNow
    /\ sessions = DefaultSessions
    /\ sessQuery = NoQuery
    /\ SchedulerIdle
    /\ BotIdle
    /\ broker = "none"
    /\ profit_taking_rules = DefaultRules
    /\ active_positions = << >>
    /\ ruleFirings = [i \in 1..Len(DefaultRules) |-> {}]
    /\ lastTick = NoTick
    /\ ruleCall = NoCall
    /\ InitRiskManager(RiskConfig(FALSE))

NextRuleList ==
    \/ SetBroker
    \/ \E rule \in RuleInputs : AddProfitTakingRule(rule)
    \/ \E rule_name \in RuleNameInputs : RemoveProfitTakingRule(rule_name)
    \/ \E rule_name \in RuleNameInputs : EnableProfitTakingRule(rule_name)
    \/ \E rule_name \in RuleNameInputs : DisableProfitTakingRule(rule_name)
    \/ \E o \in OutcomeChoices : CheckProfitTaking(o)

SpecRuleList == InitRuleList /\ [][NextRuleList]_vars

(* The engine of a running bot with its rules switched on and off and its *)
(* status and statistics asked for.  Two rules may bear one name:         *)
(* add_profit_taking_rule does not look at the names already in the list. *)

ToggleConfigs == { <<RuleQuick, RuleLondon>>, <<RuleEurusd, RuleEurusd>> }

ToggleNameInputs == {"quick", "eurusd", "No Such Rule"}

ToggleTickets == {1}

InitToggle ==
    /\ now = StartNow
    /\ sessions = DefaultSessions
    /\ sessQuery = NoQuery
    /\ SchedulerIdle
    /\ BotIdle
    /\ broker = "set"
    /\ profit_taking_rules \in ToggleConfigs
    /\ active_positions = << >>
    /\ ruleFirings = [i \in 1..Len(profit_taking_rules) |-> {}]
    /\ lastTick = NoTick
    /\ ruleCall = NoCall
    /\ InitRiskManager(RiskConfig(FALSE))

NextToggle ==
    \/ \E t \in ToggleTickets, v \in VolumeInputs :
          AddActivePosition(t, SymbolOfTicket[t], v, "london")
    \/ \E t \in ToggleTickets, p \in PipInputs : UpdatePositionProfit(t, p)
    \/ \E rule_name \in ToggleNameInputs : EnableProfitTakingRule(rule_name)
    \/ \E rule_name \in ToggleNameInputs : DisableProfitTakingRule(rule_name)
    \/ GetRuleStatistics
    \/ GetProfitTakingStatus
    \/ \E o \in OutcomeChoices : CheckProfitTaking(o)
    \/ \E d \in ClockSteps : AdvanceClock(d)

SpecToggle == InitToggle /\ [][NextToggle]_vars

\* the orders a caller brackets: no stop and no target, or both one price
\* step away from the open price
BracketInputs(order_type, price) ==
    {[sl |-> None, tp |-> None],
     IF order_type = "BUY" THEN [sl |-> price - 1, tp |-> price + 1]
     ELSE [sl |-> price + 1, tp |-> price - 1]}

\* what broker.get_current_price answers for a symbol
QuoteInputs ==
    {NoQuote} \cup {[available |-> TRUE, bid |-> b, ask |-> a] :
                       <<b, a>> \in {pa \in PriceInputs \X PriceInputs : pa[1] <= pa[2]}}

InitRisk ==
    /\ now = StartNow
    /\ sessions = DefaultSessions
    /\ sessQuery = NoQuery
    /\ SchedulerIdle
    /\ BotIdle
    /\ EngineIdle
    /\ \E trailing \in BOOLEAN : InitRiskManager(RiskConfig(trailing))

NextRisk ==
    \/ \E v \in VolumeOrders, account \in {None, Balance}, ask \in {None} \cup AskInputs :
          CanOpenPosition(v, account, ask)
    \/ \E t \in Tickets : \E b \in BracketInputs(SideOfTicket[t], OpenPrice) :
          AddPosition(Position(t, SideOfTicket[t], OrderVolume, OpenPrice, b.sl, b.tp))
    \/ \E t \in Tickets, p \in PriceInputs : ClosePosition(t, p)
    \/ \E t \in Tickets : RemovePosition(t)
    \/ \E q \in [Symbols -> QuoteInputs] : UpdatePositions(q)
    \/ ApplyTrailingStop
    \/ \E account \in {None, Balance} : ShouldCloseAllPositions(account)
    \/ AdvanceDay

SpecRisk == InitRisk /\ [][NextRisk]_vars

(* The book of the RiskManager scanned for stops and targets met.         *)

InitScans ==
    /\ now = StartNow
    /\ sessions = DefaultSessions
    /\ sessQuery = NoQuery
    /\ SchedulerIdle
    /\ BotIdle
    /\ EngineIdle
    /\ InitRiskManager(RiskConfig(FALSE))

NextScans ==
    \/ \E t \in Tickets : \E b \in BracketInputs(SideOfTicket[t], OpenPrice) :
          AddPosition(Position(t, SideOfTicket[t], OrderVolume, OpenPrice, b.sl, b.tp))
    \/ \E t \in Tickets : RemovePosition(t)
    \/ \E q \in [Symbols -> QuoteInputs] : UpdatePositions(q)
    \/ CheckStopLosses
    \/ CheckTakeProfits

SpecScans == InitScans /\ [][NextScans]_vars

(* The RiskManager of a running bot with its reports called: one long     *)
(* position without stop or target is opened, priced, closed and retired. *)

\* the balance broker.get_account_info answers with
AccountInputs == {Balance, LowBalance}

\* one quote for every symbol, bid and ask alike
ReportQuotes ==
    {[s \in Symbols |-> [available |-> TRUE, bid |-> p, ask |-> p]] : p \in PriceInputs}

ReportTicket == 1

\* the order can_open_position is asked about
ReportVolume == 1

ReportAsk == 1

InitReports ==
    /\ now = StartNow
    /\ sessions = DefaultSessions
    /\ sessQuery = NoQuery
    /\ SchedulerIdle
    /\ BotIdle
    /\ EngineIdle
    /\ InitRiskManager(RiskConfig(FALSE))

NextReports ==
    \/ CanOpenPosition(ReportVolume, Balance, ReportAsk)
    \/ AddPosition(Position(ReportTicket, SideOfTicket[ReportTicket], OrderVolume,
                            OpenPrice, None, None))
    \/ \E p \in PriceInputs : ClosePosition(ReportTicket, p)
    \/ RemovePosition(ReportTicket)
    \/ \E q \in ReportQuotes : UpdatePositions(q)
    \/ \E account \in AccountInputs : GetRiskMetrics(account)
    \/ \E account \in AccountInputs : GetRiskAlerts(account)
    \/ \E account \in AccountInputs : ShouldCloseAllPositions(account)
    \/ AdvanceDay

SpecReports == InitReports /\ [][NextReports]_vars

(* The running bot within one quarter of an hour of the London session:   *)
(* trades are opened in both books, the risk-management cycle and the     *)
(* profit check run, and the status is read.                              *)

\* the rules of the running bot: one for every position that closes a part,
\* one for the London session that closes the whole
BotRules == <<RuleQuick, RuleLondon>>

InitBot ==
    /\ now = StartNow
    /\ sessions = DefaultSessions
    /\ sessQuery = NoQuery
    /\ SchedulerIdle
    /\ BotIdle
    /\ broker = "set"
    /\ profit_taking_rules = BotRules
    /\ active_positions = << >>
    /\ ruleFirings = [i \in 1..Len(BotRules) |-> {}]
    /\ lastTick = NoTick
    /\ ruleCall = NoCall
    /\ InitRiskManager(BotRiskConfig)

NextBot ==
    \/ \E account \in {None, BotBalance}, quote \in OpenQuotes,
          placed \in BOOLEAN, record_quote \in OpenQuotes :
          ExecuteSignal(MinLot, account, quote, placed, record_quote, "london")
    \/ \E c \in CycleQuotes, o \in CycleOutcomes :
          UpdateRiskManagement([s \in Symbols |-> c], o, BotBalance)
    \/ \E pips \in ProfitChoices, o \in PartialCloseChoices :
          BotCheckProfitTaking(pips, o)
    \/ \E account \in {None, BotBalance} : GetRiskMetrics(account)

SpecBot == InitBot /\ [][NextBot]_vars

----------------------------------------------------------------------------
(* The two threads on the book of the RiskManager.  The analysis job of   *)
(* _start_session_analysis is a job of the schedule module, so that both  *)
(* SessionManager._run_scheduler and TradingBot._main_loop run it from    *)
(* their run_pending; the main loop goes on to _update_risk_management.   *)
(* No statement of the code takes a lock: the steps below are the calls   *)
(* on the book, between which the other thread may run (every call of the *)
(* broker between them blocks).                                           *)

\* what the steps of the two threads leave alone
raceRest == <<now, sessionVars, running, sm_running, connected, stopPc, callLog,
              engineVars, config, current_drawdown, peak_balance, max_drawdown>>

\* execute_signal on th, up to the answer of can_open_position: "can_trade,
\* reason = self.risk_manager.can_open_position(symbol, volume,
\* stop_loss_pips); if not can_trade: return"
SignalCanOpen(th, account, quote) ==
    LET d == ResetDailyMetrics
        r == CanOpenDecision(d, MinLot, account,
                             IF quote.available THEN quote.ask ELSE None)
    IN  /\ threads[th].pc = "top"
        /\ total_trades + 1 \in Tickets
        /\ daily_pnl' = d.daily_pnl
        /\ daily_trades' = d.daily_trades
        /\ last_reset_date' = d.last_reset_date
        /\ max_daily_loss_reached' = (d.max_daily_loss_reached \/ r.latch)
        /\ threads' = [threads EXCEPT ![th].pc =
                          IF r.allowed THEN "admitted" ELSE "top"]
        /\ riskCall' = [op |-> "can_open_position", by |-> th,
                        allowed |-> r.allowed, reason |-> r.reason]
        /\ UNCHANGED <<raceRest, positions, total_trades, winning_trades,
                       losing_trades>>

\* execute_signal on th after can_open_position allowed the trade: the
\* volume, the price, place_order and, when the broker placed the order,
\* RiskManager.add_position with the ticket the broker gave
SignalPlace(th, account, quote, placed) ==
    LET ticket == total_trades + 1
        volume == IF account = None THEN 0
                  ELSE CalculatePositionSize(quote.available,
                                             account * config.max_position_size,
                                             StopDistance)
        opened == volume > 0 /\ quote.available /\ placed /\ ticket \in Tickets
        price == IF SideOfTicket[ticket] = "BUY" THEN quote.ask ELSE quote.bid
        sl == IF SideOfTicket[ticket] = "BUY" THEN price - StopDistance
              ELSE price + StopDistance
        tp == IF SideOfTicket[ticket] = "BUY" THEN price + 1 ELSE price - 1
    IN  /\ threads[th].pc = "admitted"
        /\ threads' = [threads EXCEPT ![th].pc = "top"]
        /\ positions' = IF opened
                        THEN [t \in DOMAIN positions \cup {ticket} |->
                                IF t = ticket
                                THEN Position(ticket, SideOfTicket[ticket], volume,
                                              price, sl, tp)
                                ELSE positions[t]]
                        ELSE positions
        /\ daily_trades' = IF opened THEN daily_trades + 1 ELSE daily_trades
        /\ total_trades' = IF opened THEN total_trades + 1 ELSE total_trades
        /\ riskCall' = [op |-> "add_position", by |-> th, added |-> opened]
        /\ UNCHANGED <<raceRest, daily_pnl, max_daily_loss_reached, last_reset_date,
                       winning_trades, losing_trades>>

\* the main loop in _update_risk_management: update_positions
CycleRefresh(quotes) ==
    /\ threads["main"].pc = "top"
    /\ threads' = [threads EXCEPT !["main"].pc = "checks"]
    /\ positions' = PricedBook(positions, quotes)
    /\ riskCall' = [op |-> "update_positions", by |-> "main"]
    /\ UNCHANGED <<raceRest, daily_pnl, daily_trades, max_daily_loss_reached,
                   last_reset_date, total_trades, winning_trades, losing_trades>>

\* check_stop_losses and check_take_profits: the tickets to close
CycleCheck ==
    /\ threads["main"].pc = "checks"
    /\ threads' = [threads EXCEPT !["main"] =
          [pc |-> "closing",
           todo |-> InTicketOrder({t \in DOMAIN positions : StopLossHit(positions[t])})
                      \o InTicketOrder({t \in DOMAIN positions :
                                           TakeProfitHit(positions[t])})]]
    /\ riskCall' = [op |-> "check_stop_losses", by |-> "main"]
    /\ UNCHANGED <<raceRest, positions, daily_pnl, daily_trades,
                   max_daily_loss_reached, last_reset_date, total_trades,
                   winning_trades, losing_trades>>

\* one turn of "for ticket in sl_tickets + tp_tickets: if
\* self.broker.close_order(ticket): self.risk_manager.remove_position(ticket)"
CycleClose(outcome) ==
    /\ threads["main"].pc = "closing"
    /\ threads["main"].todo # << >>
    /\ LET ticket == Head(threads["main"].todo)
           st == [positions |-> positions, daily_pnl |-> daily_pnl,
                  winning_trades |-> winning_trades,
                  losing_trades |-> losing_trades, aborted |-> FALSE]
           st1 == IF CloseOrder(outcome) THEN Retire(st, ticket) ELSE st
       IN  /\ positions' = st1.positions
           /\ daily_pnl' = st1.daily_pnl
           /\ winning_trades' = st1.winning_trades
           /\ losing_trades' = st1.losing_trades
           /\ riskCall' = [op |-> "close", by |-> "main", ticket |-> ticket,
                           outcome |-> outcome]
    /\ threads' = [threads EXCEPT !["main"].todo = Tail(threads["main"].todo)]
    /\ UNCHANGED <<raceRest, daily_trades, max_daily_loss_reached, last_reset_date,
                   total_trades>>

\* the rest of the cycle once the loop of the closes is over:
\* apply_trailing_stop, should_close_all_positions and, when it says so,
\* _close_all_positions
CycleFinish(outcomeOf, account) ==
    /\ threads["main"].pc = "closing"
    /\ threads["main"].todo = << >>
    /\ threads' = [threads EXCEPT !["main"].pc = "top"]
    /\ \E trailed \in {TrailedBook(positions)} :
       \E reset \in {Today > last_reset_date} :
       \E pnl \in {IF reset THEN 0 ELSE daily_pnl} :
       \E close_all \in {/\ account # None
                         /\ \/ DailyLossBreached(pnl, account)
                            \/ current_drawdown >= HardDrawdownPct} :
       \E st \in {[positions |-> trailed, daily_pnl |-> pnl,
                    winning_trades |-> winning_trades,
                    losing_trades |-> losing_trades, aborted |-> FALSE]} :
       \E st1 \in {IF close_all
                    THEN CloseTickets(st, InTicketOrder(DOMAIN trailed), 1, outcomeOf)
                    ELSE st} :
           /\ positions' = st1.positions
           /\ daily_pnl' = st1.daily_pnl
           /\ winning_trades' = st1.winning_trades
           /\ losing_trades' = st1.losing_trades
           /\ daily_trades' = IF reset THEN 0 ELSE daily_trades
           /\ max_daily_loss_reached' = IF reset THEN FALSE ELSE max_daily_loss_reached
           /\ last_reset_date' = IF reset THEN Today ELSE last_reset_date
           /\ riskCall' = [op |-> "should_close_all_positions", by |-> "main",
                           result |-> close_all]
    /\ UNCHANGED <<raceRest, total_trades>>

\* the quotes of the broker while the two threads run
RaceQuotes == {[available |-> TRUE, bid |-> 1, ask |-> 1],
               [available |-> TRUE, bid |-> 3, ask |-> 3]}

InitRace ==
    /\ now = StartNow
    /\ sessions = DefaultSessions
    /\ sessQuery = NoQuery
    /\ SchedulerIdle
    /\ threads = [th \in Threads |-> [pc |-> "top", todo |-> << >>]]
    /\ running = TRUE
    /\ sm_running = TRUE
    /\ connected = TRUE
    /\ stopPc = "none"
    /\ callLog = EmptyBag
    /\ broker = "set"
    /\ profit_taking_rules = BotRules
    /\ active_positions = << >>
    /\ ruleFirings = [i \in 1..Len(BotRules) |-> {}]
    /\ lastTick = NoTick
    /\ ruleCall = NoCall
    /\ InitRiskManager(RiskConfig(TRUE))

NextRace ==
    \/ \E th \in Threads, account \in {None, BotBalance}, quote \in RaceQuotes :
          SignalCanOpen(th, account, quote)
    \/ \E th \in Threads, quote \in RaceQuotes, placed \in BOOLEAN :
          SignalPlace(th, BotBalance, quote, placed)
    \/ \E c \in RaceQuotes : CycleRefresh([s \in Symbols |-> c])
    \/ CycleCheck
    \/ \E outcome \in CloseOutcomes : CycleClose(outcome)
    \/ \E o \in CycleOutcomes, account \in {None, BotBalance} : CycleFinish(o, account)

SpecRace == InitRace /\ [][NextRace]_vars

----------------------------------------------------------------------------
(* Properties of MarketSession.is_session_active *)

\* C4: for a registered session and a query time t, the result is true iff
\* start <= time-of-day(t) <= end when start <= end, and iff
\* time-of-day(t) >= start or time-of-day(t) <= end when start > end, where
\* the time of day is taken in the session's timezone.
C4_IsActiveMatchesWindow ==
    sessQuery.kind \in DOMAIN sessions =>
        LET s == sessions[sessQuery.kind]
            tod == (sessQuery.at + s.tz) % DayMinutes
        IN  sessQuery.result =
               IF s.start_time <= s.end_time
               THEN s.start_time <= tod /\ tod <= s.end_time
               ELSE tod >= s.start_time \/ tod <= s.end_time

\* a 22:00-06:00 session was found active at 02:00 local time
C4_Witness ==
    /\ sessQuery.kind \in DOMAIN sessions
    /\ sessions[sessQuery.kind].start_time = 1320
    /\ sessions[sessQuery.kind].end_time = 360
    /\ (sessQuery.at + sessions[sessQuery.kind].tz) % DayMinutes = 120
    /\ sessQuery.result

----------------------------------------------------------------------------
(* Properties of ProfitMonitor.check_profit_taking *)

JustTicked == lastTick # NoTick

RuleIdx == 1..Len(profit_taking_rules)

\* the attempts of rule i in the tick that just returned, and the good ones
Attempts(i) == lastTick.walks[i].attempts

OkAttempts(i) == {k \in 1..Len(Attempts(i)) : Attempts(i)[k].outcome = "ok"}

\* C1: any two ticks at times t1 < t2 on which the same rule made at least
\* one successful close are at least the rule's interval apart.
C1_NoRefireWithinInterval ==
    \A i \in RuleIdx : \A t1 \in ruleFirings[i], t2 \in ruleFirings[i] :
        t1 < t2 => t2 - t1 >= profit_taking_rules[i].time_interval_minutes

\* a rule has fired on two different ticks
C1_Witness == \E i \in RuleIdx : Cardinality(ruleFirings[i]) >= 2

\* C6: a successful partial close takes exactly volume x fraction off the
\* tracked volume; the position is untracked if the rest is below the minimum
\* lot and stays tracked with the rest otherwise.
C6_PartialCloseVolume ==
    JustTicked =>
        \A i \in RuleIdx : \A k \in OkAttempts(i) :
            LET a == Attempts(i)[k]
                rest == a.before - (a.before * profit_taking_rules[i].profit_percentage) \div PctDen
            IN  IF rest < MinLot THEN a.after = None ELSE a.after = rest

\* C7: after a tick, the last_execution of a rule that made at least one
\* successful close is the tick's time, and that of every other rule is what
\* it was before the tick.
C7_LastExecution ==
    JustTicked =>
        \A i \in RuleIdx :
            profit_taking_rules[i].last_execution =
                IF OkAttempts(i) # {} THEN lastTick.time ELSE lastTick.before[i]

\* in one tick one rule closed a position and another rule, whose attempts
\* all failed, kept its last_execution
C7_Witness ==
    /\ JustTicked
    /\ \E i \in RuleIdx, j \in RuleIdx :
          /\ OkAttempts(i) # {}
          /\ Attempts(j) # << >>
          /\ OkAttempts(j) = {}

\* the candidates of rule i before candidate k that rule i closed
ClosedBefore(i, k) ==
    {m \in 1..(k - 1) :
        \E n \in OkAttempts(i) : Attempts(i)[n].ticket = lastTick.walks[i].cands[m].ticket}

\* C8: in one tick a rule makes at most max_trades_per_interval successful
\* closes, asks for each candidate at most once, and a failed candidate does
\* not use up the cap: a candidate at or above the threshold is attempted
\* exactly when fewer than max_trades_per_interval candidates before it were
\* closed.
C8_CapCountsSuccesses ==
    JustTicked =>
        \A i \in RuleIdx :
            LET w == lastTick.walks[i]
                rule == profit_taking_rules[i]
            IN  /\ Cardinality(OkAttempts(i)) <= rule.max_trades_per_interval
                /\ \A m \in 1..Len(w.attempts), n \in 1..Len(w.attempts) :
                      w.attempts[m].ticket = w.attempts[n].ticket => m = n
                /\ \A k \in 1..Len(w.cands) :
                      (\E n \in 1..Len(w.attempts) : w.attempts[n].ticket = w.cands[k].ticket)
                      <=> ( /\ w.cands[k].pips >= rule.min_profit_pips
                            /\ Cardinality(ClosedBefore(i, k)) < rule.max_trades_per_interval )

\* a rule capped at one close failed on its first candidate and closed the
\* next one
C8_Witness ==
    /\ JustTicked
    /\ \E i \in RuleIdx :
          /\ profit_taking_rules[i].max_trades_per_interval = 1
          /\ Len(Attempts(i)) = 2
          /\ Attempts(i)[1].outcome # "ok"
          /\ Attempts(i)[2].outcome = "ok"

\* the place of a ticket in the tracking order at the start of the tick
TrackedAt(ticket) ==
    CHOOSE n \in 1..Len(lastTick.order) : lastTick.order[n] = ticket

\* the attempts of rule i follow the order of its candidate list
AttemptsFollowCands(i) ==
    LET w == lastTick.walks[i]
        At(ticket) == CHOOSE n \in 1..Len(w.cands) : w.cands[n].ticket = ticket
    IN  \A m \in 1..Len(w.attempts), n \in 1..Len(w.attempts) :
            m < n => At(w.attempts[m].ticket) < At(w.attempts[n].ticket)

C10_InactiveSessionNoAction ==
    JustTicked =>
        \A i \in RuleIdx :
            LET f == profit_taking_rules[i].session_filter
            IN  (f # "none" /\ ~ IsSessionActive(sessions[f], lastTick.time)) =>
                   /\ lastTick.walks[i].cands = << >>
                   /\ lastTick.walks[i].closed = << >>
                   /\ profit_taking_rules[i].last_execution = lastTick.before[i]

\* the candidate record of rule i for a ticket it attempted
CandOf(i, ticket) ==
    LET c == lastTick.walks[i].cands
    IN  c[CHOOSE n \in 1..Len(c) : c[n].ticket = ticket]

\* C11: every position a rule closes in a tick has a profit in pips > 0 and
\* >= the rule's min_profit_pips, and is of the rule's symbol when the rule
\* has a symbol filter; so a position of another symbol or under the
\* threshold is never closed by that rule.
C11_ClosedAreEligible ==
    JustTicked =>
        \A i \in RuleIdx : \A k \in OkAttempts(i) :
            LET ticket == Attempts(i)[k].ticket
                rule == profit_taking_rules[i]
            IN  /\ CandOf(i, ticket).pips > 0
                /\ CandOf(i, ticket).pips >= rule.min_profit_pips
                /\ rule.symbol_filter # "none" => SymbolOfTicket[ticket] = rule.symbol_filter

\* a rule filtered on EURUSD closed the EURUSD position and left a GBPUSD
\* position that is above its threshold
C11_Witness ==
    /\ JustTicked
    /\ \E i \in RuleIdx :
          /\ profit_taking_rules[i].symbol_filter = "EURUSD"
          /\ \E k \in OkAttempts(i) : Attempts(i)[k].ticket = 1
          /\ \E n \in 1..Len(active_positions) :
                /\ active_positions[n].symbol = "GBPUSD"
                /\ active_positions[n].current_profit_pips
                      >= profit_taking_rules[i].min_profit_pips

----------------------------------------------------------------------------
(* Properties of RiskManager *)

\* a can_open_position call has just returned
JustAsked == riskCall.op = "can_open_position"

\* the breaker is latched and the date has not advanced past the last reset
LatchedToday == max_daily_loss_reached /\ Today <= last_reset_date

\* the realized loss of the day has reached the limit and the date has not
\* advanced past the last reset
LossLimitHitToday == DailyLossBreached(daily_pnl, Balance) /\ Today <= last_reset_date

\* C2 (as stated): once the daily loss magnitude is at least the daily
\* fraction of the balance, every can_open_position call of that day answers
\* (False, "Daily loss limit reached").
C2_RefusedOnceLossReached ==
    [][(LossLimitHitToday /\ JustAsked')
         => (~ riskCall'.allowed /\ riskCall'.reason = "Daily loss limit reached")]_vars

\* C2 (amended): the can_open_position call that finds the loss at the limit
\* answers (False, "Daily loss limit would be exceeded") and latches the
\* breaker; the latch stays for the rest of the day, and while it is latched
\* every can_open_position call of that day answers
\* (False, "Daily loss limit reached").
C2_RefusedOnceLatched ==
    [][/\ (LatchedToday /\ Today' = Today) => max_daily_loss_reached'
       /\ (LatchedToday /\ JustAsked')
            => (~ riskCall'.allowed /\ riskCall'.reason = "Daily loss limit reached")
       /\ (JustAsked' /\ riskCall'.reason = "Daily loss limit would be exceeded")
            => (~ riskCall'.allowed /\ max_daily_loss_reached'
                /\ DailyLossBreached(daily_pnl', Balance))
       /\ (JustAsked' /\ riskCall'.allowed)
            => ~ DailyLossBreached(daily_pnl', Balance)]_vars

\* C2 witness: a call refused by the latch after the realized P&L of the day
\* came back under the limit
C2_Witness ==
    /\ JustAsked
    /\ riskCall.reason = "Daily loss limit reached"
    /\ max_daily_loss_reached
    /\ ~ DailyLossBreached(daily_pnl, Balance)

\* the stop of a position that is in the book before and after a step
StopKept(t) == positions'[t].sl = positions[t].sl

StopTightened(t) ==
    /\ positions[t].sl # None
    /\ IF positions[t].order_type = "BUY"
       THEN positions'[t].sl > positions[t].sl
       ELSE positions'[t].sl < positions[t].sl

\* C3: while a position stays in the book its stop is kept or strictly
\* tightened (raised for a BUY, lowered for a SELL) by every call;
\* apply_trailing_stop moves a stop only with trailing enabled, to
\* current_price -/+ the trailing distance, and returns exactly the tickets
\* whose stop it moved; update_positions moves no stop.
C3_TrailingNeverLoosens ==
    [][/\ riskCall'.op # "add_position"
          => \A t \in DOMAIN positions \cap DOMAIN positions' :
                StopKept(t) \/ StopTightened(t)
       /\ riskCall'.op = "update_positions"
          => \A t \in DOMAIN positions : StopKept(t)
       /\ riskCall'.op = "apply_trailing_stop"
          => /\ DOMAIN positions' = DOMAIN positions
             /\ riskCall'.tickets = {t \in DOMAIN positions : ~ StopKept(t)}
             /\ \A t \in riskCall'.tickets :
                   /\ config.trailing_stop
                   /\ StopTightened(t)
                   /\ positions'[t].sl = ProposedStop(positions[t])]_vars

\* C3 witness: apply_trailing_stop has just moved the stop of a BUY and of a
\* SELL
C3_Witness ==
    /\ riskCall.op = "apply_trailing_stop"
    /\ riskCall.tickets = Tickets

\* the book holds at least max_open_positions positions
BookFull == Cardinality(DOMAIN positions) >= config.max_open_positions

\* C5 (as stated): with the book at the maximum, can_open_position answers
\* (False, "Maximum open positions reached") and leaves the book unchanged.
C5_RefusedAtCap ==
    [][(BookFull /\ JustAsked')
         => /\ ~ riskCall'.allowed
            /\ riskCall'.reason = "Maximum open positions reached"
            /\ positions' = positions]_vars

\* C5 (amended): with the book at the maximum, can_open_position answers
\* False and leaves the book unchanged; the reason is
\* "Maximum open positions reached" unless the daily-loss breaker is latched
\* for the day, and then it is "Daily loss limit reached".
C5_RefusedAtCapOrLatched ==
    [][(BookFull /\ JustAsked')
         => /\ ~ riskCall'.allowed
            /\ riskCall'.reason = IF LatchedToday THEN "Daily loss limit reached"
                                  ELSE "Maximum open positions reached"
            /\ positions' = positions]_vars

\* C5 witness: a call refused for the size of the book
C5_Witness ==
    /\ JustAsked
    /\ riskCall.reason = "Maximum open positions reached"
    /\ BookFull

\* C12: a can_open_position call made after the date has advanced past
\* last_reset_date first zeroes daily_pnl and daily_trades, clears the
\* breaker and moves last_reset_date to the day; it is never answered
\* "Daily loss limit reached", the breaker is set after it only if the call
\* itself latched it, and the book is unchanged.
C12_RolloverBeforeAdmission ==
    [][(JustAsked' /\ Today > last_reset_date)
         => /\ daily_pnl' = 0
            /\ daily_trades' = 0
            /\ last_reset_date' = Today
            /\ riskCall'.reason # "Daily loss limit reached"
            /\ max_daily_loss_reached'
                  => riskCall'.reason = "Daily loss limit would be exceeded"
            /\ positions' = positions]_vars

\* C12 witness: a call admitted on the day after a day that ended with the
\* realized loss at the limit
C12_Witness ==
    /\ JustAsked
    /\ riskCall.allowed
    /\ Today >= 1
    /\ last_reset_date = Today
    /\ losing_trades >= 1
    /\ winning_trades = 0
    /\ daily_pnl = 0

----------------------------------------------------------------------------
(* Properties of the rule list *)

\* C13: every rule of the list has an interval > 0, a fraction in (0, 1]
\* and a maximum of at least 1 trade per interval, any other rule having been
\* refused by add_profit_taking_rule.
C13_RulesAreValid ==
    \A i \in RuleIdx :
        /\ profit_taking_rules[i].time_interval_minutes > 0
        /\ profit_taking_rules[i].profit_percentage > 0
        /\ profit_taking_rules[i].profit_percentage <= PctDen
        /\ profit_taking_rules[i].max_trades_per_interval >= 1

\* C14: the rule list of an engine created without configured rules holds
\* the rules given to add_profit_taking_rule and not removed since, and no
\* other: every listed rule is one a caller added, the rule just added is
\* the last of the list, and no rule bears the name just removed.
C14_RuleListIsSupplied ==
    /\ \A i \in RuleIdx :
          \E rule \in RuleInputs : profit_taking_rules[i].name = rule.name
    /\ ruleCall.op = "add_profit_taking_rule"
          => /\ profit_taking_rules # << >>
             /\ profit_taking_rules[Len(profit_taking_rules)].name = ruleCall.name
    /\ ruleCall.op = "remove_profit_taking_rule"
          => \A i \in RuleIdx : profit_taking_rules[i].name # ruleCall.name

\* the places of the rules called rule_name in the list
PlacesNamed(rule_name) ==
    {i \in RuleIdx : profit_taking_rules[i].name = rule_name}

\* C15: enable_profit_taking_rule and disable_profit_taking_rule set the
\* enabled flag of the named rule (the first of that name in the list) and
\* change nothing else: every other field, every other rule, the tracked
\* positions and the broker are as before, and a name no rule bears leaves
\* the list as it was; and in a tick a disabled rule asks the broker for
\* nothing and keeps its last_execution.
C15_ToggleOnlyTheFlag ==
    [][ /\ ruleCall'.op \in {"enable_profit_taking_rule", "disable_profit_taking_rule"}
           => /\ Len(profit_taking_rules') = Len(profit_taking_rules)
              /\ \A i \in RuleIdx :
                    profit_taking_rules'[i] =
                        IF /\ i \in PlacesNamed(ruleCall'.name)
                           /\ \A j \in PlacesNamed(ruleCall'.name) : i <= j
                        THEN [profit_taking_rules[i] EXCEPT
                                !.enabled = (ruleCall'.op = "enable_profit_taking_rule")]
                        ELSE profit_taking_rules[i]
              /\ UNCHANGED <<active_positions, broker, ruleFirings>>
        /\ lastTick' # NoTick
           => \A i \in RuleIdx :
                 ~ profit_taking_rules[i].enabled
                    => /\ lastTick'.walks[i].attempts = << >>
                       /\ profit_taking_rules'[i] = profit_taking_rules[i]
      ]_vars

\* a rule that has fired before is switched off, and a tick comes while a
\* position it would otherwise close is tracked
C15_Witness ==
    /\ JustTicked
    /\ \E i \in RuleIdx :
          /\ ~ profit_taking_rules[i].enabled
          /\ profit_taking_rules[i].last_execution # None
          /\ RuleDue(profit_taking_rules[i], now)
          /\ \E n \in 1..Len(active_positions) :
                /\ PositionMatches(profit_taking_rules[i], active_positions[n])
                /\ active_positions[n].current_profit_pips
                      >= profit_taking_rules[i].min_profit_pips

\* C16: the engine records per rule a trigger count, an action count and the
\* cumulative profit of its closes: the statistics it hands out hold, for
\* every rule, at least one action for each tick on which the rule closed a
\* position, and no more actions than triggers.
C16_RuleStatistics ==
    ruleCall.op = "get_rule_statistics" =>
        /\ ruleCall.result # "AttributeError"
        /\ \A i \in RuleIdx :
              /\ ruleCall.result[i].actions >= Cardinality(ruleFirings[i])
              /\ ruleCall.result[i].actions <= ruleCall.result[i].triggers

(* Properties of the scans and reports of the RiskManager *)

\* C17: check_stop_losses returns exactly the tickets of the positions whose
\* stop is met (a long at or below its stop, a short at or above it),
\* check_take_profits exactly those whose target is met (a long at or above
\* its target, a short at or below it); a position without stop, or without
\* target, is never returned, and neither call changes the book.
C17_ScansReturnBreached ==
    [][ /\ riskCall'.op = "check_stop_losses"
           => /\ riskCall'.tickets =
                    {t \in DOMAIN positions :
                        /\ positions[t].sl # None
                        /\ positions[t].order_type = "BUY"
                              => positions[t].current_price <= positions[t].sl
                        /\ positions[t].order_type = "SELL"
                              => positions[t].current_price >= positions[t].sl}
              /\ positions' = positions
        /\ riskCall'.op = "check_take_profits"
           => /\ riskCall'.tickets =
                    {t \in DOMAIN positions :
                        /\ positions[t].tp # None
                        /\ positions[t].order_type = "BUY"
                              => positions[t].current_price >= positions[t].tp
                        /\ positions[t].order_type = "SELL"
                              => positions[t].current_price <= positions[t].tp}
              /\ positions' = positions
      ]_vars

\* the stop scan returned a long whose price stands exactly at its stop and
\* left a position that has no stop in the book
C17_Witness ==
    /\ riskCall.op = "check_stop_losses"
    /\ \E t \in riskCall.tickets :
          /\ positions[t].order_type = "BUY"
          /\ positions[t].current_price = positions[t].sl
    /\ \E u \in DOMAIN positions \ riskCall.tickets : positions[u].sl = None

\* the loss of the day has reached the daily fraction of the balance
LossAtLimit(balance) == Abs(daily_pnl) * 100 >= balance * config.max_daily_loss

\* the present equity has come down from its running peak by at least the
\* hard ceiling; the peak is the greatest equity seen, the present one included
DeclineAtCeiling(balance) ==
    LET equity == CurrentEquity(balance)
        peak == IF equity > peak_balance THEN equity ELSE peak_balance
    IN  peak > 0 /\ (peak - equity) * 100 >= HardDrawdownPct * peak

\* C18: should_close_all_positions, the broker reporting a balance, answers
\* true if the loss of the day is at least max_daily_loss x balance or the
\* present equity is at least 10% below its running peak, and false when
\* neither holds.
C18_CloseEverythingDecision ==
    riskCall.op = "should_close_all_positions" =>
        riskCall.result = (LossAtLimit(riskCall.balance) \/ DeclineAtCeiling(riskCall.balance))

\* C19 (as stated): get_risk_alerts reports the daily-loss breaker exactly
\* while it is latched and the calendar day it was latched on has not ended.
C19_VisibleUntilMidnight ==
    riskCall.op = "get_risk_alerts" =>
        ("Daily loss limit reached" \in riskCall.alerts
            <=> (max_daily_loss_reached /\ Today <= last_reset_date))

\* C19 (amended): get_risk_alerts reports the daily-loss breaker exactly
\* while it is latched, and the latch is released only by the daily reset
\* that the first can_open_position or should_close_all_positions call of a
\* later calendar day makes.
C19_VisibleUntilReset ==
    [][ /\ riskCall'.op = "get_risk_alerts"
           => ("Daily loss limit reached" \in riskCall'.alerts
                  <=> max_daily_loss_reached)
        /\ (max_daily_loss_reached /\ ~ max_daily_loss_reached')
           => /\ Today > last_reset_date
              /\ last_reset_date' = Today
              /\ riskCall'.op \in {"can_open_position", "should_close_all_positions"}
      ]_vars

\* the alerts still report the breaker of a day that has ended
C19_Witness ==
    /\ riskCall.op = "get_risk_alerts"
    /\ "Daily loss limit reached" \in riskCall.alerts
    /\ Today > last_reset_date

\* C20: get_risk_metrics and get_risk_alerts leave the book, the daily
\* state, the peak equity and the drawdown as they were.
C20_ReportsArePure ==
    [][riskCall'.op \in {"get_risk_metrics", "get_risk_alerts"}
          => UNCHANGED <<positions, daily_pnl, daily_trades,
                         max_daily_loss_reached, last_reset_date, peak_balance,
                         current_drawdown, max_drawdown>>]_vars

(* Properties of the SessionManager *)

\* C24: a session registered with enabled = false never appears in the
\* result of get_active_sessions.
C24_DisabledNeverActive ==
    sessCall.op = "get_active_sessions" =>
        \A k \in sessCall.result : sessions[k].enabled

\* C23: add_session with a time of day that is no time of day, or with a
\* timezone that is not known, raises and leaves the registered sessions
\* and the scheduled jobs exactly as they were; with a good configuration
\* it does not raise and the session is registered.
C23_RejectedNotApplied ==
    [][sessCall'.op = "add_session" =>
          IF \/ sessCall'.tz = None
             \/ sessCall'.start \notin 0..(DayMinutes - 1)
             \/ sessCall'.end \notin 0..(DayMinutes - 1)
          THEN /\ sessCall'.raised
               /\ sessions' = sessions
               /\ jobs' = jobs
          ELSE /\ ~ sessCall'.raised
               /\ sessCall'.kind \in DOMAIN sessions'
               /\ sessions'[sessCall'.kind].start_time = sessCall'.start
      ]_vars

\* a registration with a bad start time was refused while the same kind
\* stays registered and scheduled with its earlier window
C23_Witness ==
    /\ sessCall.op = "add_session"
    /\ sessCall.raised
    /\ sessCall.start = BadTime
    /\ sessCall.kind \in DOMAIN sessions
    /\ \E j \in 1..Len(jobs) : jobs[j].kind = sessCall.kind

\* C21: no callback is called more than once on one calendar day for the
\* start of a session, nor more than once for its end.
C21_OncePerDay ==
    \A e \in BagToSet(callLog) : CopiesIn(e, callLog) <= 1

\* C22: when a thread runs a session job, every callback registered for
\* that session is called, in the order of registration, whether or not an
\* earlier one raised; the thread goes on with its run_pending, and the job
\* is set to run again at a later time.
C22_FailingCallbackIsolated ==
    [][(sessCall'.op = "dispatch" /\ threads' # threads) =>
          LET registered == IF sessCall'.kind \in DOMAIN session_callbacks
                            THEN session_callbacks[sessCall'.kind] ELSE << >>
          IN  /\ Len(sessCall'.invoked) = Len(registered)
              /\ \A i \in 1..Len(registered) : sessCall'.invoked[i].cb = registered[i]
              /\ threads'[sessCall'.by].pc = "jobs"
              /\ \A j \in 1..Len(jobs') :
                    (jobs'[j].kind = sessCall'.kind /\ jobs'[j].edge = sessCall'.edge)
                       => jobs'[j].next_run > now
      ]_vars

\* the first of two callbacks raised and the second was called
C22_Witness ==
    /\ sessCall.op = "dispatch"
    /\ Len(sessCall.invoked) = 2
    /\ sessCall.invoked[1].raised
    /\ ~ sessCall.invoked[2].raised

\* C29: while the main loop is inside an iteration (its scheduled jobs, its
\* risk-management cycle or its profit check) the broker is connected, stop()
\* waiting for the iteration to end before it disconnects.
C29_StopLetsTickFinish ==
    threads["main"].pc \in {"run_pending", "jobs", "risk", "profit_check"}
        => connected

\* the time of day t + tz lies in the stored window of s
InStoredWindow(s, t) ==
    LET tod == (t + s.tz) % DayMinutes
    IN  IF s.start_time <= s.end_time
        THEN s.start_time <= tod /\ tod <= s.end_time
        ELSE tod >= s.start_time \/ tod <= s.end_time

\* C25: whatever notifications were dispatched before (none, late or
\* twice), is_session_active answers by the stored window and the time asked
\* about, and get_active_sessions is the set of sessions whose window holds
\* that time; neither follows the is_active flag the notifications set.
C25_QueriesIgnoreNotifications ==
    /\ sessQuery.kind \in DOMAIN sessions =>
          sessQuery.result = InStoredWindow(sessions[sessQuery.kind], sessQuery.at)
    /\ sessCall.op = "get_active_sessions" =>
          sessCall.result =
             {k \in DOMAIN sessions : InStoredWindow(sessions[k], sessCall.at)}

\* after the end of the session was notified, get_active_sessions for 10:00
\* answers with the session, whose flag is down
C25_Witness ==
    /\ callLog # EmptyBag
    /\ sessCall.op = "get_active_sessions"
    /\ sessCall.at = 600
    /\ "london" \in sessCall.result
    /\ ~ sessions["london"].is_active

\* C26: remove_position of a ticket of the book takes the position out of
\* the book and leaves the others as they are, adds its realized P&L to the
\* daily P&L, and counts one more winning trade if that P&L is > 0, one more
\* losing trade if it is < 0 and neither if it is 0; remove_position of a
\* ticket that is not in the book changes nothing.
C26_RetireFoldsPnl ==
    [][riskCall'.op = "remove_position" =>
          LET ticket == riskCall'.ticket
          IN  IF ticket \in DOMAIN positions
              THEN LET pnl == positions[ticket].realized_pnl
                   IN  /\ DOMAIN positions' = DOMAIN positions \ {ticket}
                       /\ \A t \in DOMAIN positions' : positions'[t] = positions[t]
                       /\ daily_pnl' = daily_pnl + pnl
                       /\ winning_trades' =
                             IF pnl > 0 THEN winning_trades + 1 ELSE winning_trades
                       /\ losing_trades' =
                             IF pnl < 0 THEN losing_trades + 1 ELSE losing_trades
              ELSE /\ positions' = positions
                   /\ daily_pnl' = daily_pnl
                   /\ winning_trades' = winning_trades
                   /\ losing_trades' = losing_trades
                   /\ daily_trades' = daily_trades
                   /\ total_trades' = total_trades
      ]_vars

\* a position closed at a loss has just been retired after one retired at a
\* profit
C26_Witness ==
    /\ riskCall.op = "remove_position"
    /\ riskCall.found
    /\ riskCall.ticket \notin DOMAIN positions
    /\ winning_trades = 1
    /\ losing_trades = 1
    /\ daily_pnl < 0

----------------------------------------------------------------------------
(* Properties of the running bot *)

\* no rule after rule i closed a part of that ticket in the tick
LastCloseOf(i, ticket) ==
    \A j \in RuleIdx : j > i =>
        \A n \in OkAttempts(j) : Attempts(j)[n].ticket # ticket

C28_TrackedAreInBook ==
    riskCall.op = "update_risk_management" =>
        TicketSet(active_positions) \subseteq DOMAIN positions

\* the tickets a cycle found at their stop or their target
TriggeredIn(call) == {call.triggered[n] : n \in 1..Len(call.triggered)}

\* C30: in a risk-management cycle every position at its stop or target
\* whose close the broker does is retired, whatever happens to the close of
\* the others; a position whose close fails or raises inside the broker
\* stays in the book, as does every position that was not to be closed; and
\* the trailing stops are applied to the positions that stay.
C30_FailedCloseSkipsOnlyThatPosition ==
    [][riskCall'.op = "update_risk_management" =>
          /\ \A t \in TriggeredIn(riskCall') :
                riskCall'.outcome[t] = "ok" => t \notin DOMAIN positions'
          /\ \A t \in DOMAIN positions :
                riskCall'.outcome[t] # "ok" => t \in DOMAIN positions'
          /\ \A t \in DOMAIN positions \ TriggeredIn(riskCall') :
                ~ riskCall'.close_all => t \in DOMAIN positions'
          /\ config.trailing_stop =>
                /\ \A t \in DOMAIN positions' : ~ TrailAccepts(positions'[t])
                /\ \A t \in riskCall'.trailing :
                      t \in DOMAIN positions /\ t \in DOMAIN positions'
      ]_vars

\* both positions were at their stop or target; the close of the second
\* raised inside the broker, the first was closed and retired, and the stop
\* of the second was trailed
C30_Witness ==
    /\ riskCall.op = "update_risk_management"
    /\ riskCall.triggered = <<1, 2>>
    /\ riskCall.outcome[1] = "ok"
    /\ riskCall.outcome[2] = "error"
    /\ DOMAIN positions = {2}
    /\ riskCall.trailing = {2}

\* C31: no two rules of the rule list bear the same name.
C31_RuleNamesUnique ==
    \A i \in 1..Len(profit_taking_rules), j \in 1..Len(profit_taking_rules) :
        profit_taking_rules[i].name = profit_taking_rules[j].name => i = j

\* C37: with a realized P&L of the day that is not negative,
\* can_open_position does not refuse for the daily loss limit being exceeded
\* (and so does not latch the breaker), and should_close_all_positions does
\* not answer true unless the drawdown is at its ceiling.
C37_ProfitNeverTripsLossControls ==
    daily_pnl >= 0 =>
        /\ riskCall.op = "can_open_position" =>
              riskCall.reason # "Daily loss limit would be exceeded"
        /\ (riskCall.op = "should_close_all_positions"
              /\ current_drawdown < HardDrawdownPct) => ~ riskCall.result

\* C39: in one tick of check_profit_taking at most one rule closes a part of
\* a position: no ticket stands twice in the list of closed tickets, and no
\* ticket has more than one successful close over all the rules of the tick.
C39_OneClosePerTicketPerTick ==
    JustTicked =>
        /\ \A m \in 1..Len(lastTick.closed_tickets),
              n \in 1..Len(lastTick.closed_tickets) :
              lastTick.closed_tickets[m] = lastTick.closed_tickets[n] => m = n
        /\ \A i \in RuleIdx, j \in RuleIdx :
              \A m \in OkAttempts(i), n \in OkAttempts(j) :
                 Attempts(i)[m].ticket = Attempts(j)[n].ticket => (i = j /\ m = n)

RECURSIVE UnrealizedOf(_, _)
UnrealizedOf(S, book) ==
    IF S = {} THEN 0
    ELSE LET t == CHOOSE x \in S : TRUE
         IN  book[t].unrealized_pnl + UnrealizedOf(S \ {t}, book)

\* C36: a risk-management cycle of the bot adds to the realized P&L of the
\* day the P&L, at the prices it refreshed, of every position it closed and
\* retired, so that the losses taken at the stops count against the daily
\* loss limit.
C36_LoopLossesReachDailyPnl ==
    [][(riskCall'.op = "update_risk_management"
          /\ positions' # positions
          /\ last_reset_date' = last_reset_date) =>
          daily_pnl' = daily_pnl
                         + UnrealizedOf(DOMAIN positions \ DOMAIN positions',
                                        PricedBook(positions, riskCall'.quotes))
      ]_vars

\* the price a cycle read for the position of ticket t: the bid for a BUY and
\* the ask for the others, and the price the position carried where the
\* broker gave no quote
CyclePrice(call, t) ==
    LET q == call.quotes[SymbolOfTicket[t]]
    IN  IF ~ q.available THEN positions[t].current_price
        ELSE IF positions[t].order_type = "BUY" THEN q.bid ELSE q.ask

\* the position of ticket t is at its stop or its target at price p
AtStopOrTarget(t, p) ==
    LET pos == positions[t]
    IN  \/ pos.sl # None /\ (IF pos.order_type = "BUY" THEN p <= pos.sl ELSE p >= pos.sl)
        \/ pos.tp # None /\ (IF pos.order_type = "BUY" THEN p >= pos.tp ELSE p <= pos.tp)

C35_AdmittedWithinFraction ==
    (riskCall.op = "execute_signal" /\ riskCall.success) =>
        positions[total_trades].volume * positions[total_trades].price * 100
            <= riskCall.account * config.max_position_size

\* the main loop is inside a risk-management cycle: past update_positions
\* and not yet through the closes and the checks that follow them
MidCycle == threads["main"].pc \in {"checks", "closing"}

\* C32: while the main loop is inside a risk-management cycle no other
\* thread changes the book of the RiskManager: every step that changes it
\* then is a step of the main loop.
C32_BookSerialized ==
    [][(MidCycle /\ threads'["main"] = threads["main"]) => positions' = positions]_vars

\* C34: the book never holds more positions than max_open_positions.
C34_NeverAboveCap ==
    Cardinality(DOMAIN positions) <= config.max_open_positions

============================================================================
